---- MODULE Spec2Model ----
(***************************************************************************)
(* Token-analytics benchmark harness: the pattern-based evaluator          *)
(* (src/eval.py, TokenAnalyticsEvaluator) and the grading scale            *)
(* (src/grading_scale.py, AnalyticsGradingScale).                          *)
(*                                                                         *)
(* Texts are TLA+ strings, read character by character.  Python values     *)
(* are tagged records, so that a float, a str, a list and None can sit in  *)
(* the same field: None, Num(v), Str(s), List(l).  A float is a decimal    *)
(* with FracDigits fractional digits, held as the integer number of        *)
(* 10^-FracDigits units; arithmetic on it is exact (binary rounding of     *)
(* IEEE doubles is outside the model).                                     *)
(***************************************************************************)
EXTENDS Integers, Sequences, FiniteSets, TLC

VARIABLES
    queries,          \* self.queries['queries']: the query store, in order
    agent_responses,  \* run_evaluation's argument: query_id -> response
    results,          \* run_evaluation's local list of result records
    summary,          \* the value run_evaluation returns (None before)
    pc,               \* position: loop / done / raised (run), grade, call / returned
    evaluation_result,\* the argument of calculate_question_score
    grade_record,     \* the value calculate_question_score returns
    call,             \* a direct call of a method: its name and arguments
    returned          \* the value that call returns (None before)

vars == <<queries, agent_responses, results, summary, pc, evaluation_result,
          grade_record, call, returned>>

(***************************************************************************)
(* Bounds of the model.                                                    *)
(***************************************************************************)
FracDigits == 2      \* fractional decimal digits kept for a float
MaxQueries == 2      \* longest query store made of the core queries
MaxCalls == 3        \* most direct calls of the extractors in a row
MaxResults == 3      \* longest result list graded, the long runs apart

RECURSIVE Pow10(_)
Pow10(n) == IF n = 0 THEN 1 ELSE 10 * Pow10(n - 1)

Unit == Pow10(FracDigits)        \* the float 1.0

(***************************************************************************)
(* Python values.                                                          *)
(***************************************************************************)
None == [t |-> "None"]
Num(v) == [t |-> "num", v |-> v]
Str(s) == [t |-> "str", v |-> s]
List(l) == [t |-> "list", v |-> l]

IsNum(x) == x.t = "num"          \* isinstance(x, (int, float))
IsStr(x) == x.t = "str"          \* isinstance(x, str)
IsList(x) == x.t = "list"        \* isinstance(x, list)

Abs(n) == IF n < 0 THEN -n ELSE n

Min(a, b) == IF a < b THEN a ELSE b

Max(a, b) == IF a > b THEN a ELSE b

RECURSIVE GCD(_, _)
GCD(a, b) == IF b = 0 THEN a ELSE GCD(b, a % b)

\* The exact quotient n / d of two integers, d > 0, in lowest terms.
Ratio(n, d) == LET g == GCD(Abs(n), d) IN [num |-> n \div g, den |-> d \div g]

\* Python's n / d: the quotient, or ZeroDivisionError.
Divide(n, d) == IF d = 0 THEN [raised |-> "ZeroDivisionError"] ELSE Ratio(n, d)

Raised(r) == "raised" \in DOMAIN r

(***************************************************************************)
(* Evaluation order.  TLC hands an operator its arguments unevaluated and  *)
(* may evaluate one again at each use; a variable bound by a set is a      *)
(* value.  So a value that is costly to compute and used more than once    *)
(* is bound as  Only({ F(x) : x \in {costly} }),  and a loop over the      *)
(* positions of a text is a recursive function of the position.            *)
(***************************************************************************)
Only(S) == CHOOSE x \in S : TRUE

(***************************************************************************)
(* Characters and strings (str methods and the operator `in`).             *)
(***************************************************************************)
UpperAlpha == "ABCDEFGHIJKLMNOPQRSTUVWXYZ"
LowerAlpha == "abcdefghijklmnopqrstuvwxyz"
DigitChars == "0123456789"
Whitespace == {" ", "\t", "\n", "\r", "\f"}

Ch(s, i) == SubSeq(s, i, i)

CharsOf(alphabet) == {Ch(alphabet, i) : i \in 1..Len(alphabet)}

\* The position of character c in alphabet (c occurs in it once).
IndexOf(c, alphabet) == CHOOSE i \in 1..Len(alphabet) : Ch(alphabet, i) = c

UpperSet == CharsOf(UpperAlpha)
LowerSet == CharsOf(LowerAlpha)
DigitSet == CharsOf(DigitChars)

ToLower == [c \in UpperSet |-> Ch(LowerAlpha, IndexOf(c, UpperAlpha))]
ToUpper == [c \in LowerSet |-> Ch(UpperAlpha, IndexOf(c, LowerAlpha))]
DigitOf == [c \in DigitSet |-> IndexOf(c, DigitChars) - 1]

\* The text with each character c replaced by the string F(c): piece[lo, hi]
\* is the result for the characters lo..hi (halving keeps the nesting low).
MapChars(text, F(_)) ==
    LET piece[lo \in 1..(Len(text) + 1), hi \in 0..Len(text)] ==
            IF lo > hi THEN ""
            ELSE IF lo = hi THEN F(Ch(text, lo))
            ELSE piece[lo, (lo + hi) \div 2] \o piece[(lo + hi) \div 2 + 1, hi]
    IN  piece[1, Len(text)]

\* str.lower() and str.upper()
LowerCh(c) == IF c \in UpperSet THEN ToLower[c] ELSE c

UpperCh(c) == IF c \in LowerSet THEN ToUpper[c] ELSE c

lower(text) == MapChars(text, LowerCh)

upper(text) == MapChars(text, UpperCh)

IsDigit(c) == c \in DigitSet

\* \w of the regular expressions: a letter, a digit or the underscore.
IsWordChar(c) == c \in UpperSet \cup LowerSet \cup DigitSet \cup {"_"}

\* w occurs in text starting at position i.
StartsWithAt(text, i, w) ==
    /\ i >= 1
    /\ i + Len(w) - 1 <= Len(text)
    /\ SubSeq(text, i, i + Len(w) - 1) = w

\* Python's `w in text` for strings.
Contains(text, w) == \E i \in 1..(Len(text) + 1) : StartsWithAt(text, i, w)

\* \b at the gap before position p (between characters p-1 and p).
WordBoundary(text, p) ==
    LET before == p - 1 >= 1 /\ p - 1 <= Len(text) /\ IsWordChar(Ch(text, p - 1))
        after == p >= 1 /\ p <= Len(text) /\ IsWordChar(Ch(text, p))
    IN  before # after

\* The first position at or after i whose character is not in class
\* (Len(text) + 1 when the run reaches the end of the text).
RunEnd(text, i, class) ==
    CHOOSE p \in i..(Len(text) + 1) :
        /\ p > Len(text) \/ Ch(text, p) \notin class
        /\ \A q \in i..(p - 1) : Ch(text, q) \in class

\* The least position in lo..n that satisfies Match, 0 when none does.
FirstMatchFrom(lo, n, Match(_)) ==
    IF \E p \in lo..n : Match(p)
    THEN CHOOSE p \in lo..n : Match(p) /\ \A q \in lo..(p - 1) : ~Match(q)
    ELSE 0

FirstMatch(n, Match(_)) == FirstMatchFrom(1, n, Match)

(***************************************************************************)
(* The number pattern  [+-]?([0-9]*[.])?[0-9]+  and float().               *)
(***************************************************************************)
\* The position just after the match of the number pattern that starts at
\* i, or 0 when the pattern does not match there.  The quantifiers are
\* greedy: the sign when there is one, then digits, a point and at least
\* one digit when the text has them, else the run of digits.
NumberEndAt(text, i) ==
    IF i < 1 \/ i > Len(text) THEN 0
    ELSE Only({ Only({ IF k <= Len(text) /\ Ch(text, k) = "."
                           /\ RunEnd(text, k + 1, DigitSet) > k + 1
                       THEN RunEnd(text, k + 1, DigitSet)
                       ELSE IF k > j THEN k
                       ELSE 0
                       : k \in {RunEnd(text, j, DigitSet)} })
                : j \in {IF Ch(text, i) \in {"+", "-"} THEN i + 1 ELSE i} })

\* The number pattern followed by \s* and one of the suffixes matches at i.
NumberMatchAt(text, i, suffixes) ==
    \E e \in {NumberEndAt(text, i)} :
        /\ e # 0
        /\ \E s \in {RunEnd(text, e, Whitespace)} :
               \E w \in suffixes : StartsWithAt(text, s, w)

\* re.search: group(1) of the leftmost match as Str, None without a match.
SearchNumber(text, suffixes) ==
    Only({ IF i = 0 THEN None ELSE Str(SubSeq(text, i, NumberEndAt(text, i) - 1))
           : i \in {FirstMatch(Len(text), LAMBDA p : NumberMatchAt(text, p, suffixes))} })

\* int() of a string of digits ("" is 0, for the forms ".5" and "5").
DigitsValue(s) ==
    LET val[n \in 0..Len(s)] ==
            IF n = 0 THEN 0 ELSE val[n - 1] * 10 + DigitOf[Ch(s, n)]
    IN  val[Len(s)]

\* The position of the decimal point in a match of the number pattern, or 0.
PointAt(s) == FirstMatch(Len(s), LAMBDA p : Ch(s, p) = ".")

\* float(s) for a match of the number pattern, in units of 10^-FracDigits
\* (fractional digits beyond FracDigits are dropped).
float(s) ==
    Only({ Only({ Only({ Only({ IF Head(s) = "-" THEN -mag ELSE mag
                                : mag \in { DigitsValue(SubSeq(body, 1, dot - 1)) * Unit
                                            + DigitsValue(kept)
                                                  * Pow10(FracDigits - Len(kept)) } })
                         : kept \in {SubSeq(body, dot + 1,
                                            Min(Len(body), dot + FracDigits))} })
                  : dot \in {IF PointAt(body) = 0 THEN Len(body) + 1
                             ELSE PointAt(body)} })
           : body \in {IF Head(s) \in {"+", "-"} THEN Tail(s) ELSE s} })

(***************************************************************************)
(* re.sub helpers.                                                         *)
(***************************************************************************)
\* re.sub(r'\$', '', text)
RemoveChar(text, c) == MapChars(text, LAMBDA x : IF x = c THEN "" ELSE x)

\* The alternative of \b(w1|w2|...)\b that matches at i: its index in
\* words (the alternatives in the order the pattern tries them), or 0.
WordMatchAt(text, i, words) ==
    FirstMatch(Len(words),
               LAMBDA k : /\ StartsWithAt(text, i, words[k])
                          /\ WordBoundary(text, i)
                          /\ WordBoundary(text, i + Len(words[k])))

\* re.sub(r'\b(w1|w2|...)\b', '', text): rest[i] is the result for the
\* text from position i on; m is the start of the next match, if any.
RemoveWords(text, words) ==
    LET rest[i \in 1..(Len(text) + 1)] ==
            Only({ IF m = 0 THEN SubSeq(text, i, Len(text))
                   ELSE SubSeq(text, i, m - 1)
                            \o rest[m + Len(words[WordMatchAt(text, m, words)])]
                   : m \in {FirstMatchFrom(i, Len(text),
                                           LAMBDA p : WordMatchAt(text, p, words) # 0)} })
    IN  rest[1]

\* re.sub(r'[class]+', ' ', text): m is the start of the next run.
Collapse(text, class) ==
    LET rest[i \in 1..(Len(text) + 1)] ==
            Only({ IF m = 0 THEN SubSeq(text, i, Len(text))
                   ELSE SubSeq(text, i, m - 1) \o " " \o rest[RunEnd(text, m, class)]
                   : m \in {FirstMatchFrom(i, Len(text),
                                           LAMBDA p : Ch(text, p) \in class)} })
    IN  rest[1]

\* str.split(): the maximal runs of non-whitespace characters, in order.
split(text) ==
    LET NonSpace == {Ch(text, p) : p \in 1..Len(text)} \ Whitespace
        rest[i \in 1..(Len(text) + 1)] ==
            Only({ IF s > Len(text) THEN <<>>
                   ELSE Only({ <<SubSeq(text, s, e - 1)>> \o rest[e]
                               : e \in {RunEnd(text, s, NonSpace)} })
                   : s \in {RunEnd(text, i, Whitespace)} })
    IN  rest[1]

\* `if not text`: None and the empty string are falsy.
Falsy(text) == text = None \/ text.v = ""

(***************************************************************************)
(* The extractors of TokenAnalyticsEvaluator.                              *)
(***************************************************************************)
_extract_numeric_percentage(text) ==
    IF Falsy(text) THEN None
    ELSE Only({ IF m1 # None THEN Num(float(m1.v))
                ELSE Only({ IF m2 # None THEN Num(float(m2.v)) ELSE None
                            : m2 \in { SearchNumber(t, {"percent", "percentage"})
                                       : t \in {lower(text.v)} } })
                : m1 \in {SearchNumber(text.v, {"%"})} })

\* Variant: a positive-context word withdraws the negative context.
PlainNumberIn_increase_overrides(t) ==
    Only({ IF m = None THEN None
           ELSE Only({ IF is_negative /\ value > 0 THEN Num(-value) ELSE Num(value)
                       : value \in {float(m.v)},
                         is_negative \in { /\ \/ Contains(t, "decrease")
                                              \/ Contains(t, "decreased")
                                              \/ Contains(t, "down")
                                           /\ ~ \/ Contains(t, "increase")
                                                \/ Contains(t, "increased")
                                                \/ Contains(t, "up") } })
           : m \in {SearchNumber(t, {""})} })

\* The rest of _extract_plain_number, on the text without '$' and hedges.
PlainNumberIn(t) ==
    Only({ IF m = None THEN None
           ELSE Only({ IF is_negative /\ value > 0 THEN Num(-value) ELSE Num(value)
                       : value \in {float(m.v)},
                         is_negative \in { \/ Contains(t, "decrease")
                                           \/ Contains(t, "decreased")
                                           \/ Contains(t, "down") } })
           : m \in {SearchNumber(t, {""})} })

_extract_plain_number(text) ==
    IF Falsy(text) THEN None
    ELSE Only({ PlainNumberIn(t3)
                : t3 \in { RemoveWords(t2, <<"about", "approximately", "roughly", "around">>)
                           : t2 \in { RemoveChar(t1, "$")
                                      : t1 \in {lower(text.v)} } } })

ValidTokens == <<"SOL", "ETH", "TAO">>

\* Variant: the symbol that occurs first in the text is returned.
_extract_token_name_first_in_text(text, token_list) ==
    IF Falsy(text) THEN None
    ELSE Only({ Only({ IF p = 0 THEN None
                       ELSE Str(token_list[CHOOSE h \in 1..Len(token_list) :
                                               StartsWithAt(t, p, token_list[h])])
                       : p \in { FirstMatch(Len(t),
                                            LAMBDA i : \E h \in 1..Len(token_list) :
                                                          StartsWithAt(t, i, token_list[h])) } })
                : t \in {upper(text.v)} })

_extract_token_name(text, token_list) ==
    IF Falsy(text) THEN None
    ELSE Only({ IF k = 0 THEN None ELSE Str(token_list[k])
                : k \in { FirstMatch(Len(token_list),
                                     LAMBDA h : Contains(t, token_list[h]))
                          : t \in {upper(text.v)} } })

\* \d{4}-\d{2}-\d{2} matches at position i.
DateMatchAt(text, i) ==
    /\ i + 9 <= Len(text)
    /\ \A k \in {0, 1, 2, 3, 5, 6, 8, 9} : IsDigit(Ch(text, i + k))
    /\ Ch(text, i + 4) = "-"
    /\ Ch(text, i + 7) = "-"

\* Variant: when the pattern does not match, the value of the call before,
\* left over in the evaluator, is returned.
_extract_date_from_text_stale(text) ==
    IF Falsy(text) THEN None
    ELSE Only({ IF i # 0 THEN Str(SubSeq(text.v, i, i + 9))
                ELSE IF returned # <<>> THEN returned[Len(returned)]
                ELSE None
                : i \in {FirstMatch(Len(text.v), LAMBDA p : DateMatchAt(text.v, p))} })

_extract_date_from_text(text) ==
    IF Falsy(text) THEN None
    ELSE Only({ IF i = 0 THEN None ELSE Str(SubSeq(text.v, i, i + 9))
                : i \in {FirstMatch(Len(text.v), LAMBDA p : DateMatchAt(text.v, p))} })

Member(x, seq) == \E k \in 1..Len(seq) : seq[k] = x

\* Variant: a token is appended at each of its appearances.
CollectTokens_repeating(words, tokens) ==
    LET found[n \in 0..Len(words)] ==
            IF n = 0 THEN <<>>
            ELSE Only({ IF Member(words[n], tokens)
                        THEN Append(prev, words[n]) ELSE prev
                        : prev \in {found[n - 1]} })
    IN  found[Len(words)]

\* The loop over words: found[n] is found_tokens after the first n words
\* (the tokens in order of first appearance, none twice).
CollectTokens(words, tokens) ==
    LET found[n \in 0..Len(words)] ==
            IF n = 0 THEN <<>>
            ELSE Only({ IF Member(words[n], tokens) /\ ~Member(words[n], prev)
                        THEN Append(prev, words[n]) ELSE prev
                        : prev \in {found[n - 1]} })
    IN  found[Len(words)]

\* The second loop: after[n] is found_tokens after the first n tokens of
\* the list (those that occur anywhere in the text are appended).
AppendOccurring(text, tokens, first) ==
    LET after[n \in 0..Len(tokens)] ==
            IF n = 0 THEN first
            ELSE Only({ IF Contains(text, tokens[n]) /\ ~Member(tokens[n], prev)
                        THEN Append(prev, tokens[n]) ELSE prev
                        : prev \in {after[n - 1]} })
    IN  after[Len(tokens)]

\* Variant: without the second pass over the text.
RankingIn_no_fallback(t) ==
    Only({ IF first # <<>> THEN List(first) ELSE None
           : first \in {CollectTokens(words, ValidTokens) : words \in {split(t)}} })

\* The rest of _normalize_ranking, on the cleaned text.
RankingIn(t) ==
    Only({ Only({ IF found_tokens # <<>> THEN List(found_tokens) ELSE None
                  : found_tokens \in { IF first # <<>> /\ Len(first) < 3
                                       THEN AppendOccurring(t, ValidTokens, first)
                                       ELSE first } })
           : first \in {CollectTokens(words, ValidTokens) : words \in {split(t)}} })

_normalize_ranking(text) ==
    IF Falsy(text) THEN None
    ELSE Only({ RankingIn(t4)
                : t4 \in { Collapse(t3, {","} \cup Whitespace)
                           : t3 \in { Collapse(t2, {"-", ">"} \cup Whitespace)
                                      : t2 \in { RemoveWords(t1, <<"ranked", "ranking", "order",
                                                                   "by", "as", "follows", "follow",
                                                                   "is", "are">>)
                                                 : t1 \in {upper(text.v)} } } } })

(***************************************************************************)
(* The accuracy classifier and the hallucination check.                    *)
(***************************************************************************)
\* Variant: two lists match when they hold the same tokens, in any order.
_calculate_accuracy_unordered(predicted, truth, category) ==
    IF IsNum(truth) /\ IsNum(predicted)
    THEN [correct |-> Abs(predicted.v - truth.v) <= 1 * Unit,
          absolute_error |-> Num(Abs(predicted.v - truth.v)),
          error_type |-> Str("numeric_error")]
    ELSE IF IsStr(truth) /\ IsStr(predicted)
    THEN [correct |-> upper(predicted.v) = upper(truth.v),
          absolute_error |-> None,
          error_type |-> Str("string_mismatch")]
    ELSE IF IsList(truth) /\ IsList(predicted)
    THEN [correct |-> {predicted.v[k] : k \in 1..Len(predicted.v)}
                          = {truth.v[k] : k \in 1..Len(truth.v)},
          absolute_error |-> None,
          error_type |-> Str("list_mismatch")]
    ELSE [correct |-> FALSE,
          absolute_error |-> None,
          error_type |-> Str("type_mismatch")]

\* Variant: the tolerance comparison is strict.
_calculate_accuracy_strict(predicted, truth, category) ==
    IF IsNum(truth) /\ IsNum(predicted)
    THEN [correct |-> Abs(predicted.v - truth.v) < 1 * Unit,
          absolute_error |-> Num(Abs(predicted.v - truth.v)),
          error_type |-> Str("numeric_error")]
    ELSE IF IsStr(truth) /\ IsStr(predicted)
    THEN [correct |-> upper(predicted.v) = upper(truth.v),
          absolute_error |-> None,
          error_type |-> Str("string_mismatch")]
    ELSE IF IsList(truth) /\ IsList(predicted)
    THEN [correct |-> predicted.v = truth.v,
          absolute_error |-> None,
          error_type |-> Str("list_mismatch")]
    ELSE [correct |-> FALSE,
          absolute_error |-> None,
          error_type |-> Str("type_mismatch")]

\* Variant: the result starts with 'absolute_error': 0.0 instead of None.
_calculate_accuracy_zero_error(predicted, truth, category) ==
    IF IsNum(truth) /\ IsNum(predicted)
    THEN [correct |-> Abs(predicted.v - truth.v) <= 1 * Unit,
          absolute_error |-> Num(Abs(predicted.v - truth.v)),
          error_type |-> Str("numeric_error")]
    ELSE IF IsStr(truth) /\ IsStr(predicted)
    THEN [correct |-> upper(predicted.v) = upper(truth.v),
          absolute_error |-> Num(0),
          error_type |-> Str("string_mismatch")]
    ELSE IF IsList(truth) /\ IsList(predicted)
    THEN [correct |-> predicted.v = truth.v,
          absolute_error |-> Num(0),
          error_type |-> Str("list_mismatch")]
    ELSE [correct |-> FALSE,
          absolute_error |-> Num(0),
          error_type |-> Str("type_mismatch")]

_calculate_accuracy(predicted, truth, category) ==
    IF IsNum(truth) /\ IsNum(predicted)
    THEN [correct |-> Abs(predicted.v - truth.v) <= 1 * Unit,
          absolute_error |-> Num(Abs(predicted.v - truth.v)),
          error_type |-> Str("numeric_error")]
    ELSE IF IsStr(truth) /\ IsStr(predicted)
    THEN [correct |-> upper(predicted.v) = upper(truth.v),
          absolute_error |-> None,
          error_type |-> Str("string_mismatch")]
    ELSE IF IsList(truth) /\ IsList(predicted)
    THEN [correct |-> predicted.v = truth.v,
          absolute_error |-> None,
          error_type |-> Str("list_mismatch")]
    ELSE [correct |-> FALSE,
          absolute_error |-> None,
          error_type |-> Str("type_mismatch")]

\* Variant: the bounds themselves count as out of range (>=, <=).
is_hallucination_inclusive(predicted, category) ==
    IF predicted = None THEN TRUE
    ELSE IF IsNum(predicted)
    THEN IF category = "percentage_threshold"
              /\ (predicted.v >= 100 * Unit \/ predicted.v <= 0)
         THEN TRUE
         ELSE IF category = "price_change"
                   /\ (predicted.v >= 1000 * Unit \/ predicted.v <= -1000 * Unit)
         THEN TRUE
         ELSE IF category = "volatility" /\ predicted.v >= 1000 * Unit
         THEN TRUE
         ELSE FALSE
    ELSE IF IsStr(predicted)
    THEN predicted.v \notin {"SOL", "ETH", "TAO", "2025-06-11", "2025-06-23"}
    ELSE IF IsList(predicted)
    THEN ~(\A k \in 1..Len(predicted.v) : Member(predicted.v[k], ValidTokens))
    ELSE FALSE

\* The value of the local is_hallucination of evaluate_agent_response.
is_hallucination(predicted, category) ==
    IF predicted = None THEN TRUE
    ELSE IF IsNum(predicted)
    THEN IF category = "percentage_threshold"
              /\ (predicted.v > 100 * Unit \/ predicted.v < 0)
         THEN TRUE
         ELSE IF category = "price_change"
                   /\ (predicted.v > 1000 * Unit \/ predicted.v < -1000 * Unit)
         THEN TRUE
         ELSE IF category = "volatility" /\ predicted.v > 1000 * Unit
         THEN TRUE
         ELSE FALSE
    ELSE IF IsStr(predicted)
    THEN predicted.v \notin {"SOL", "ETH", "TAO", "2025-06-11", "2025-06-23"}
    ELSE IF IsList(predicted)
    THEN ~(\A k \in 1..Len(predicted.v) : Member(predicted.v[k], ValidTokens))
    ELSE FALSE

(***************************************************************************)
(* evaluate_agent_response.  A call either returns a result record or      *)
(* raises; a raise is the record [raised |-> <exception>].                 *)
(***************************************************************************)
DefaultAgentName == "Unknown"

\* The loop that finds the query: the first one with the id, else None.
FindQuery(query_id) ==
    IF \E k \in 1..Len(queries) : queries[k].id = query_id
    THEN queries[CHOOSE k \in 1..Len(queries) :
                     /\ queries[k].id = query_id
                     /\ \A h \in 1..(k - 1) : queries[h].id # query_id]
    ELSE None

\* The extractor chosen from the category and the question.
ExtractPredicted(category, question, agent_response) ==
    IF category = "percentage_threshold"
    THEN _extract_numeric_percentage(agent_response)
    ELSE IF category = "price_change"
    THEN _extract_plain_number(agent_response)
    ELSE IF category = "volatility"
    THEN IF Contains(question, "most volatile") \/ Contains(question, "which token")
         THEN _extract_token_name(agent_response, ValidTokens)
         ELSE _extract_plain_number(agent_response)
    ELSE IF category \in {"volume_analysis", "performance_comparison"}
    THEN IF Contains(question, "ranking") \/ Contains(question, "rank")
         THEN _normalize_ranking(agent_response)
         ELSE _extract_token_name(agent_response, ValidTokens)
    ELSE IF category = "price_analysis"
    THEN IF Contains(question, "date")
         THEN _extract_date_from_text(agent_response)
         ELSE IF Contains(question, "ranking") \/ Contains(question, "rank")
         THEN _normalize_ranking(agent_response)
         ELSE _extract_token_name(agent_response, ValidTokens)
    ELSE None

\* The result record, once the query, the predicted value and the accuracy
\* are known; reading the key 'explanation' of a query without it raises.
ResultRecord(query, agent_response, agent_name, predicted, accuracy) ==
    IF "explanation" \notin DOMAIN query
    THEN [raised |-> "KeyError"]
    ELSE [query_id |-> query.id,
          question |-> query.question,
          category |-> query.category,
          truth |-> query.truth,
          explanation |-> query.explanation,
          agent_name |-> agent_name,
          agent_response |-> agent_response,
          predicted |-> predicted,
          correct |-> accuracy.correct,
          absolute_error |-> accuracy.absolute_error,
          error_type |-> accuracy.error_type,
          is_hallucination |-> is_hallucination(predicted, query.category)]

evaluate_agent_response(query_id, agent_response, agent_name) ==
    Only({ IF query = None THEN [raised |-> "ValueError"]
           ELSE Only({ Only({ ResultRecord(query, agent_response, agent_name,
                                           predicted, accuracy)
                              : accuracy \in {_calculate_accuracy(predicted, query.truth,
                                                                  query.category)} })
                       : predicted \in { ExtractPredicted(query.category, question,
                                                          agent_response)
                                         : question \in {lower(query.question)} } })
           : query \in {FindQuery(query_id)} })

(***************************************************************************)
(* run_evaluation: the record of an unanswered query and the summary.      *)
(* (The timestamp fields, datetime.now(), are left out of the records.)    *)
(***************************************************************************)
\* Variant: an unanswered query is flagged like a None prediction.
MissingResult_flagged(query, agent_name) ==
    [query_id |-> query.id,
     question |-> query.question,
     category |-> query.category,
     truth |-> query.truth,
     agent_name |-> agent_name,
     agent_response |-> None,
     predicted |-> None,
     correct |-> FALSE,
     absolute_error |-> None,
     error_type |-> Str("missing_response"),
     is_hallucination |-> TRUE]

MissingResult(query, agent_name) ==
    [query_id |-> query.id,
     question |-> query.question,
     category |-> query.category,
     truth |-> query.truth,
     agent_name |-> agent_name,
     agent_response |-> None,
     predicted |-> None,
     correct |-> FALSE,
     absolute_error |-> None,
     error_type |-> Str("missing_response"),
     is_hallucination |-> FALSE]

\* sum(1 for r in rs if P(r)) over a list of records.
Count(rs, P(_)) == Cardinality({k \in 1..Len(rs) : P(rs[k])})

\* The list comprehension of the non-None absolute errors.
NumericErrors(rs) ==
    LET errs[n \in 0..Len(rs)] ==
            IF n = 0 THEN <<>>
            ELSE IF rs[n].absolute_error # None
                 THEN Append(errs[n - 1], rs[n].absolute_error.v)
                 ELSE errs[n - 1]
    IN  errs[Len(rs)]

\* The sum np.mean divides by the length.
SumSeq(s) ==
    LET sum[n \in 0..Len(s)] == IF n = 0 THEN 0 ELSE sum[n - 1] + s[n]
    IN  sum[Len(s)]

\* Variant: the percentages are divided without the total_queries > 0 guard.
Summarize_unguarded(rs, agent_name) ==
    Only({ Only({ IF Raised(accuracy_percentage) THEN accuracy_percentage
                  ELSE IF Raised(hallucination_rate) THEN hallucination_rate
                  ELSE [agent_name |-> agent_name,
                        total_queries |-> total_queries,
                        correct_answers |-> correct_answers,
                        accuracy_percentage |-> accuracy_percentage,
                        hallucination_count |-> hallucinations,
                        hallucination_rate |-> hallucination_rate,
                        average_absolute_error |->
                            IF numeric_errors # <<>>
                            THEN Ratio(SumSeq(numeric_errors), Len(numeric_errors))
                            ELSE Ratio(0, 1),
                        results |-> rs]
                  : accuracy_percentage \in
                        {Divide(correct_answers * 100, total_queries)},
                    hallucination_rate \in
                        {Divide(hallucinations * 100, total_queries)} })
           : total_queries \in {Len(rs)},
             correct_answers \in {Count(rs, LAMBDA r : r.correct)},
             hallucinations \in {Count(rs, LAMBDA r : r.is_hallucination)},
             numeric_errors \in {NumericErrors(rs)} })

\* The summary statistics.  A percentage and the mean error are exact
\* quotients; the mean error is in units of 10^-FracDigits.  The value is
\* the summary, or the exception a division raises.
Summarize(rs, agent_name) ==
    Only({ Only({ IF Raised(accuracy_percentage) THEN accuracy_percentage
                  ELSE IF Raised(hallucination_rate) THEN hallucination_rate
                  ELSE [agent_name |-> agent_name,
                        total_queries |-> total_queries,
                        correct_answers |-> correct_answers,
                        accuracy_percentage |-> accuracy_percentage,
                        hallucination_count |-> hallucinations,
                        hallucination_rate |-> hallucination_rate,
                        average_absolute_error |->
                            IF numeric_errors # <<>>
                            THEN Ratio(SumSeq(numeric_errors), Len(numeric_errors))
                            ELSE Ratio(0, 1),
                        results |-> rs]
                  : accuracy_percentage \in
                        { IF total_queries > 0
                          THEN Divide(correct_answers * 100, total_queries)
                          ELSE Ratio(0, 1) },
                    hallucination_rate \in
                        { IF total_queries > 0
                          THEN Divide(hallucinations * 100, total_queries)
                          ELSE Ratio(0, 1) } })
           : total_queries \in {Len(rs)},
             correct_answers \in {Count(rs, LAMBDA r : r.correct)},
             hallucinations \in {Count(rs, LAMBDA r : r.is_hallucination)},
             numeric_errors \in {NumericErrors(rs)} })

(***************************************************************************)
(* Inputs: the queries a store is made of and the texts an agent answers.  *)
(***************************************************************************)
Query(id, question, category, truth) ==
    [id |-> id, question |-> question, category |-> category, truth |-> truth]

\* The same record with the optional key 'explanation'.
Explained(q) ==
    [id |-> q.id, question |-> q.question, category |-> q.category,
     truth |-> q.truth, explanation |-> "Computed from the daily closes."]

BareQueries ==
    { Query("pct_tao_above_400", "What percentage of days was TAO above $400?",
            "percentage_threshold", Num(13 * Unit)),
      Query("pct_eth_above_1000", "What percentage of days was ETH above $1000?",
            "percentage_threshold", Num(100 * Unit)),
      Query("sol_price_change_30d", "What was SOL's price change over 30 days?",
            "price_change", Num(0 - (23 * Unit) \div 10)),
      Query("most_volatile_token", "Which token was the most volatile?",
            "volatility", Str("TAO")),
      Query("eth_volatility_range", "What was the volatility range of ETH?",
            "volatility", Num(14 * Unit)),
      Query("highest_avg_volume", "Which token had the highest average daily volume?",
            "volume_analysis", Str("ETH")),
      Query("rank_by_volume", "Give the ranking of the tokens by volume.",
            "volume_analysis", List(<<"ETH", "SOL", "TAO">>)),
      Query("rank_by_avg_close", "Rank the tokens by average close price.",
            "performance_comparison", List(<<"ETH", "TAO", "SOL">>)),
      Query("eth_highest_close_date", "On what date did ETH have its highest close?",
            "price_analysis", Str("2025-06-11")),
      Query("sol_lowest_close_date", "On what date did SOL have its lowest close?",
            "price_analysis", Str("2025-06-15")),
      Query("highest_close_token", "Which token had the highest close?",
            "price_analysis", Str("SOL")),
      Query("sol_longest_up_streak", "How long was SOL's longest up streak?",
            "streak_analysis", Num(5 * Unit)) }

QueryCatalog == BareQueries \cup {Explained(q) : q \in BareQueries}

NumberTexts ==
    { "0", "-0.1", "100", "100.1", "101", "101.1", "1000", "1000.1", "-1000",
      "-1000.1", "12", "13", "14", "14.01", "2.3", "-3.3", "3.31" }

NumberResponses ==
    UNION { { n, n \o "%", n \o " percent", "It decreased by about " \o n \o "%." }
            : n \in NumberTexts }

TextResponses ==
    { "",
      "TAO was above $400 for approximately 13% of the days.",
      "SOL's price decreased by about 2.3% over the 30-day period.",
      "ETH had the highest average daily volume.",
      "ETH had its highest close on 2025-06-11.",
      "The lowest close was on 2025-06-15.",
      "Ranked by average close price: ETH, TAO, SOL.",
      "SOL > ETH > TAO",
      "eth, then solana",
      "Tao was the most volatile, ahead of Sol.",
      "I do not have that data." }

\* What an agent may answer: a text or None.
Responses == {None} \cup {Str(s) : s \in NumberResponses \cup TextResponses}

CoreQueries ==
    { q \in QueryCatalog :
        \/ q.id \in {"pct_tao_above_400", "sol_price_change_30d", "rank_by_avg_close"}
               /\ "explanation" \in DOMAIN q
        \/ q.id = "eth_highest_close_date" /\ "explanation" \notin DOMAIN q }

CoreResponses ==
    { Str("13%"),
      Str("It decreased by about 3.31%."),
      Str("Ranked by average close price: ETH, TAO, SOL."),
      Str("ETH had its highest close on 2025-06-11.") }

\* The set of id's of a store.
Ids(store) == {store[k].id : k \in 1..Len(store)}

\* The stores of at most n core queries, no id twice.
CoreStores(n) ==
    UNION { { s \in [1..len -> CoreQueries] : Cardinality(Ids(s)) = len }
            : len \in 0..n }

Stores == {<<q>> : q \in QueryCatalog} \cup CoreStores(MaxQueries)

ResponsesFor(store) == IF Len(store) <= 1 THEN Responses ELSE CoreResponses

(***************************************************************************)
(* The run: run_evaluation, one loop iteration per step.                   *)
(***************************************************************************)
Init ==
    /\ queries \in Stores
    /\ \E answered \in SUBSET Ids(queries) :
           agent_responses \in [answered -> ResponsesFor(queries)]
    /\ results = <<>>
    /\ summary = None
    /\ pc = "loop"
    /\ evaluation_result = None
    /\ grade_record = None
    /\ call = None
    /\ returned = None

\* The query the loop is at.
Current == queries[Len(results) + 1]

\* An iteration for a query that has a response.
EvaluateResponse ==
    /\ pc = "loop"
    /\ Len(results) < Len(queries)
    /\ Current.id \in DOMAIN agent_responses
    /\ \E r \in {evaluate_agent_response(Current.id, agent_responses[Current.id],
                                          DefaultAgentName)} :
           IF Raised(r)
           THEN pc' = "raised" /\ UNCHANGED results
           ELSE results' = Append(results, r) /\ UNCHANGED pc
    /\ UNCHANGED <<queries, agent_responses, summary, evaluation_result, grade_record,
                 call, returned>>

\* An iteration for a query that has none.
RecordMissing ==
    /\ pc = "loop"
    /\ Len(results) < Len(queries)
    /\ Current.id \notin DOMAIN agent_responses
    /\ results' = Append(results, MissingResult(Current, DefaultAgentName))
    /\ UNCHANGED <<queries, agent_responses, summary, pc, evaluation_result, grade_record,
                 call, returned>>

\* After the loop: the summary is computed and returned.
ReturnSummary ==
    /\ pc = "loop"
    /\ Len(results) = Len(queries)
    /\ \E s \in {Summarize(results, DefaultAgentName)} :
           IF Raised(s)
           THEN pc' = "raised" /\ UNCHANGED summary
           ELSE summary' = s /\ pc' = "done"
    /\ UNCHANGED <<queries, agent_responses, results, evaluation_result, grade_record,
                 call, returned>>

Next == EvaluateResponse \/ RecordMissing \/ ReturnSummary

Spec == Init /\ [][Next]_vars

(***************************************************************************)
(* The grading scale (AnalyticsGradingScale).  A score is a float, in      *)
(* units of 10^-FracDigits like every float.  The messages are the         *)
(* source's without their leading pictograph.                              *)
(***************************************************************************)
\* self.grade_thresholds, in the order the dict is filled and iterated.
grade_thresholds ==
    << <<"A+", 95 * Unit>>, <<"A", 90 * Unit>>, <<"A-", 85 * Unit>>,
       <<"B+", 80 * Unit>>, <<"B", 75 * Unit>>, <<"B-", 70 * Unit>>,
       <<"C+", 65 * Unit>>, <<"C", 60 * Unit>>, <<"C-", 55 * Unit>>,
       <<"D+", 50 * Unit>>, <<"D", 45 * Unit>>, <<"D-", 40 * Unit>>,
       <<"F", 0 * Unit>> >>

\* Variant: the comparison with the threshold is turned round.
_get_grade_flipped(score) ==
    Only({ IF k = 0 THEN "F" ELSE grade_thresholds[k][1]
           : k \in {FirstMatch(Len(grade_thresholds),
                               LAMBDA h : score <= grade_thresholds[h][2])} })

\* Variant: the comparison with the threshold is strict.
_get_grade_strict(score) ==
    Only({ IF k = 0 THEN "F" ELSE grade_thresholds[k][1]
           : k \in {FirstMatch(Len(grade_thresholds),
                               LAMBDA h : score > grade_thresholds[h][2])} })

_get_grade(score) ==
    Only({ IF k = 0 THEN "F" ELSE grade_thresholds[k][1]
           : k \in {FirstMatch(Len(grade_thresholds),
                               LAMBDA h : score >= grade_thresholds[h][2])} })

\* Variant: the band boundaries are exclusive (<).
RelativeErrorScore_exclusive(error_magnitude, truth_value) ==
    LET within(p) == Abs(error_magnitude) * 100 < p * Abs(truth_value)
    IN  IF within(1) THEN 95 * Unit
        ELSE IF within(5) THEN 85 * Unit
        ELSE IF within(10) THEN 70 * Unit
        ELSE IF within(25) THEN 50 * Unit
        ELSE IF within(50) THEN 30 * Unit
        ELSE 10 * Unit

\* Variant: nothing for a relative error beyond 50%.
RelativeErrorScore_nothing_beyond_half(error_magnitude, truth_value) ==
    LET within(p) == Abs(error_magnitude) * 100 <= p * Abs(truth_value)
    IN  IF within(1) THEN 95 * Unit
        ELSE IF within(5) THEN 85 * Unit
        ELSE IF within(10) THEN 70 * Unit
        ELSE IF within(25) THEN 50 * Unit
        ELSE IF within(50) THEN 30 * Unit
        ELSE 0

\* The step function of the relative error |error_magnitude / truth_value|:
\* r <= p/100 is |error_magnitude| * 100 <= p * |truth_value|.
RelativeErrorScore(error_magnitude, truth_value) ==
    LET within(p) == Abs(error_magnitude) * 100 <= p * Abs(truth_value)
    IN  IF within(1) THEN 95 * Unit
        ELSE IF within(5) THEN 85 * Unit
        ELSE IF within(10) THEN 70 * Unit
        ELSE IF within(25) THEN 50 * Unit
        ELSE IF within(50) THEN 30 * Unit
        ELSE 10 * Unit

\* The bands of the absolute error, for a truth that is zero or no number.
AbsoluteErrorScore(error_magnitude) ==
    IF error_magnitude <= 1 * Unit THEN 90 * Unit
    ELSE IF error_magnitude <= 5 * Unit THEN 70 * Unit
    ELSE IF error_magnitude <= 10 * Unit THEN 50 * Unit
    ELSE 20 * Unit

\* Variant: a failed extraction gets the partial credit of a type mismatch.
_calculate_accuracy_score_extraction_partial(result) ==
    IF result.correct THEN 100 * Unit
    ELSE IF result.error_type = Str("numeric_error") /\ result.absolute_error # None
    THEN IF IsNum(result.truth) /\ result.truth.v # 0
         THEN RelativeErrorScore(result.absolute_error.v, result.truth.v)
         ELSE AbsoluteErrorScore(result.absolute_error.v)
    ELSE IF result.error_type = Str("string_mismatch") THEN 30 * Unit
    ELSE IF result.error_type = Str("list_mismatch") THEN 40 * Unit
    ELSE IF result.error_type \in {Str("type_mismatch"), Str("extraction_failed")}
    THEN 20 * Unit
    ELSE 0

_calculate_accuracy_score(result) ==
    IF result.correct THEN 100 * Unit
    ELSE IF result.error_type = Str("numeric_error") /\ result.absolute_error # None
    THEN IF IsNum(result.truth) /\ result.truth.v # 0
         THEN RelativeErrorScore(result.absolute_error.v, result.truth.v)
         ELSE AbsoluteErrorScore(result.absolute_error.v)
    ELSE IF result.error_type = Str("string_mismatch") THEN 30 * Unit
    ELSE IF result.error_type = Str("list_mismatch") THEN 40 * Unit
    ELSE IF result.error_type = Str("type_mismatch") THEN 20 * Unit
    ELSE 0

\* Variant: without the test for a 10-character date.
_calculate_precision_score_no_date(result) ==
    IF result.predicted = None THEN 0
    ELSE IF IsNum(result.predicted) THEN 100 * Unit
    ELSE IF IsStr(result.predicted) /\ result.predicted.v \in {"SOL", "ETH", "TAO"}
    THEN 100 * Unit
    ELSE IF IsList(result.predicted) /\ Len(result.predicted.v) > 0 THEN 100 * Unit
    ELSE 50 * Unit

_calculate_precision_score(result) ==
    IF result.predicted = None THEN 0
    ELSE IF IsNum(result.predicted) THEN 100 * Unit
    ELSE IF IsStr(result.predicted) /\ result.predicted.v \in {"SOL", "ETH", "TAO"}
    THEN 100 * Unit
    ELSE IF IsList(result.predicted) /\ Len(result.predicted.v) > 0 THEN 100 * Unit
    ELSE IF IsStr(result.predicted) /\ Len(result.predicted.v) = 10 THEN 100 * Unit
    ELSE 50 * Unit

\* Variant: the sum is not capped at 100.
_calculate_quality_score_uncapped(result) ==
    LET penalty_hallucination == IF result.is_hallucination THEN 50 * Unit ELSE 0
        penalty_missing == IF result.predicted = None THEN 30 * Unit ELSE 0
        bonus_correct == IF result.correct THEN 10 * Unit ELSE 0
        bonus_precise ==
            IF /\ IsNum(result.predicted)
               /\ result.absolute_error # None
               /\ result.absolute_error.v * 10 <= 1 * Unit
            THEN 5 * Unit ELSE 0
    IN  Max(0, 100 * Unit - penalty_hallucination - penalty_missing
                   + bonus_correct + bonus_precise)

_calculate_quality_score(result) ==
    LET penalty_hallucination == IF result.is_hallucination THEN 50 * Unit ELSE 0
        penalty_missing == IF result.predicted = None THEN 30 * Unit ELSE 0
        bonus_correct == IF result.correct THEN 10 * Unit ELSE 0
        bonus_precise ==
            IF /\ IsNum(result.predicted)
               /\ result.absolute_error # None
               /\ result.absolute_error.v * 10 <= 1 * Unit
            THEN 5 * Unit ELSE 0
        quality_score == 100 * Unit - penalty_hallucination - penalty_missing
                             + bonus_correct + bonus_precise
    IN  Max(0, Min(100 * Unit, quality_score))

\* n / d rounded to the nearest integer, a tie to the even one (round()).
RoundHalfEven(n, d) ==
    LET q == n \div d
        r == n % d
    IN  IF 2 * r < d THEN q
        ELSE IF 2 * r > d THEN q + 1
        ELSE IF q % 2 = 0 THEN q
        ELSE q + 1

\* The float 0.01.
Cent == Pow10(FracDigits - 2)

\* round(x, 2) of the float x = n / (100 * Unit): the weights .6, .25 and
\* .15 make the weighted score a whole number n of hundredths of a unit.
Round2(n) == RoundHalfEven(n, 100 * Cent) * Cent

\* Variant: the quality weight is .25, so the weights sum to 1.1.
_calculate_final_score_weights(accuracy, precision, quality) ==
    Round2(accuracy * 60 + precision * 25 + quality * 25)

_calculate_final_score(accuracy, precision, quality) ==
    Round2(accuracy * 60 + precision * 25 + quality * 15)

\* str(n) of a natural number.
RECURSIVE IntStr(_)
IntStr(n) == IF n < 10 THEN Ch(DigitChars, n + 1)
             ELSE IntStr(n \div 10) \o Ch(DigitChars, (n % 10) + 1)

\* f"{x:.2f}" of a float x >= 0.
Format2f(x) ==
    Only({ IntStr(h \div 100) \o "." \o IntStr((h % 100) \div 10) \o IntStr(h % 10)
           : h \in {RoundHalfEven(x, Cent)} })

\* _add_feedback: the feedback list after the appends.
_add_feedback(score_info, result) ==
    score_info.feedback
        \o (IF result.correct THEN <<"Correct answer">> ELSE <<>>)
        \o (IF result.absolute_error # None
            THEN <<"Error magnitude: " \o Format2f(result.absolute_error.v)>>
            ELSE <<>>)
        \o (IF result.is_hallucination THEN <<"Hallucination detected">> ELSE <<>>)
        \o (IF result.error_type = Str("numeric_error")
            THEN <<"Numeric precision issue">>
            ELSE IF result.error_type = Str("string_mismatch")
            THEN <<"String matching issue">>
            ELSE IF result.error_type = Str("list_mismatch")
            THEN <<"List ordering issue">>
            ELSE IF result.error_type = Str("type_mismatch")
            THEN <<"Type conversion issue">>
            ELSE <<>>)

\* score_info as calculate_question_score first builds it.
InitialScoreInfo(result) ==
    [query_id |-> result.query_id,
     category |-> result.category,
     grade |-> "F",
     score |-> 0,
     accuracy_score |-> 0,
     precision_score |-> 0,
     quality_score |-> 0,
     penalties |-> <<>>,
     bonuses |-> <<>>,
     feedback |-> <<>>]

\* The third branch of calculate_question_score: the three sub-scores, the
\* weighted score, the grade and the feedback.
FullScore(result) ==
    Only({ Only({ [ InitialScoreInfo(result) EXCEPT
                      !.accuracy_score = accuracy_score,
                      !.precision_score = precision_score,
                      !.quality_score = quality_score,
                      !.score = final_score,
                      !.grade = _get_grade(final_score),
                      !.feedback = _add_feedback(InitialScoreInfo(result), result) ]
                  : final_score \in {_calculate_final_score(accuracy_score,
                                                            precision_score,
                                                            quality_score)} })
           : accuracy_score \in {_calculate_accuracy_score(result)},
             precision_score \in {_calculate_precision_score(result)},
             quality_score \in {_calculate_quality_score(result)} })

\* Variant: the hallucination branch is tested before the missing response.
calculate_question_score_hallucination_first(result) ==
    IF result.is_hallucination
    THEN [InitialScoreInfo(result) EXCEPT !.penalties = <<"Hallucination detected">>,
                                          !.score = 0,
                                          !.grade = "F"]
    ELSE IF result.error_type = Str("missing_response")
    THEN [InitialScoreInfo(result) EXCEPT !.feedback = <<"No response provided">>]
    ELSE FullScore(result)

\* Variant: the hallucination branch records the penalty and does not
\* return, so the sub-scores are computed all the same.
calculate_question_score_no_return(result) ==
    IF result.error_type = Str("missing_response")
    THEN [InitialScoreInfo(result) EXCEPT !.feedback = <<"No response provided">>]
    ELSE IF result.is_hallucination
    THEN [FullScore(result) EXCEPT !.penalties = <<"Hallucination detected">>]
    ELSE FullScore(result)

calculate_question_score(result) ==
    IF result.error_type = Str("missing_response")
    THEN [InitialScoreInfo(result) EXCEPT !.feedback = <<"No response provided">>]
    ELSE IF result.is_hallucination
    THEN [InitialScoreInfo(result) EXCEPT !.penalties = <<"Hallucination detected">>,
                                          !.score = 0,
                                          !.grade = "F"]
    ELSE FullScore(result)

(***************************************************************************)
(* Grading one result.  calculate_question_score takes any result record,  *)
(* whoever made it, so the argument is drawn from all combinations of the  *)
(* fields it reads.                                                        *)
(***************************************************************************)
ErrorTypes ==
    { Str(e) : e \in { "numeric_error", "string_mismatch", "list_mismatch",
                       "type_mismatch", "missing_response", "extraction_failed",
                       "refusal", "evaluation_failed" } }

\* Tenths of a unit, for the errors and truths below.
Tenths(n) == (n * Unit) \div 10

GradedPredicted ==
    { None, Num(Tenths(120)), Str("SOL"), Str("2025-06-11"), Str("BTC"),
      List(<<>>), List(<<"SOL", "ETH", "TAO">>) }

GradedTruths ==
    { Num(0), Num(Tenths(100)), Num(Tenths(-40)), Str("ETH"),
      List(<<"ETH", "SOL", "TAO">>) }

\* The errors at the band boundaries of the truths 10.0 and -4.0, the errors
\* 0.01 above them, and the boundaries of the absolute-error bands.
GradedErrors ==
    {None} \cup { Num((n * Unit) \div 100)
                    : n \in { 0, 4, 5, 10, 11, 20, 21, 40, 41, 50, 51, 100, 101,
                              200, 250, 251, 500, 501, 600, 1000, 1001, 1100 } }

GradedResults ==
    [ query_id : {"q"},
      category : {"price_change"},
      truth : GradedTruths,
      predicted : GradedPredicted,
      correct : BOOLEAN,
      absolute_error : GradedErrors,
      error_type : ErrorTypes,
      is_hallucination : BOOLEAN ]

GradeInit ==
    /\ queries = <<>>
    /\ agent_responses = <<>>
    /\ results = <<>>
    /\ summary = None
    /\ pc = "grade"
    /\ evaluation_result \in GradedResults
    /\ grade_record = None
    /\ call = None
    /\ returned = None

GradeQuestion ==
    /\ pc = "grade"
    /\ grade_record = None
    /\ grade_record' = calculate_question_score(evaluation_result)
    /\ UNCHANGED <<queries, agent_responses, results, summary, pc, evaluation_result,
                 call, returned>>

GradeNext == GradeQuestion

GradeSpec == GradeInit /\ [][GradeNext]_vars

(***************************************************************************)
(* The accuracy classifier called directly: _calculate_accuracy takes any  *)
(* predicted value and truth, so both are drawn from values of every type. *)
(***************************************************************************)
\* Hundredths of a unit.
Hundredths(n) == (n * Unit) \div 100

ClassifiedNumbers ==
    { Hundredths(n) : n \in { -100010, -330, -230, -101, -100, -99, -1, 0, 1, 99,
                              100, 101, 200, 1200, 1300, 1400, 1401, 10000 } }

ClassifiedTruths ==
    { Num(v) : v \in ClassifiedNumbers }
        \cup { Str("ETH"), Str("2025-06-11") }
        \cup { List(<<"ETH", "TAO", "SOL">>), List(<<"ETH", "SOL">>) }

ClassifiedPredicted ==
    ClassifiedTruths \cup { None, Str("eth"), Str("SOL"), List(<<>>),
                            List(<<"SOL", "ETH">>) }

AccuracyCalls ==
    [ method : {"_calculate_accuracy"},
      predicted : ClassifiedPredicted,
      truth : ClassifiedTruths,
      category : {"percentage_threshold", "volume_analysis"} ]

AccuracyInit ==
    /\ queries = <<>>
    /\ agent_responses = <<>>
    /\ results = <<>>
    /\ summary = None
    /\ pc = "call"
    /\ evaluation_result = None
    /\ grade_record = None
    /\ call \in AccuracyCalls
    /\ returned = None

CalculateAccuracy ==
    /\ pc = "call"
    /\ call.method = "_calculate_accuracy"
    /\ returned' = _calculate_accuracy(call.predicted, call.truth, call.category)
    /\ pc' = "returned"
    /\ UNCHANGED <<queries, agent_responses, results, summary, evaluation_result,
                   grade_record, call>>

AccuracyNext == CalculateAccuracy

AccuracySpec == AccuracyInit /\ [][AccuracyNext]_vars

(***************************************************************************)
(* Properties of the run (Spec).                                           *)
(***************************************************************************)
\* The k-th query of the store has a response in the map.
Answered(k) == queries[k].id \in DOMAIN agent_responses

\* C1: a result the pattern-based evaluator marks correct is never flagged
\* as a hallucination.
C1_CorrectNeverHallucination ==
    \A k \in 1..Len(results) : results[k].correct => ~results[k].is_hallucination

\* C2: in every result of a run, answered or missing, absolute_error is
\* non-null only if error_type is 'numeric_error'.
C2_AbsoluteErrorOnlyNumeric ==
    \A k \in 1..Len(results) :
        results[k].absolute_error # None
            => results[k].error_type = Str("numeric_error")

\* A finished run with a numeric result, a non-numeric answered result or
\* a missing one beside it.
C2_Witness ==
    /\ pc = "done"
    /\ \E k \in 1..Len(results) : results[k].absolute_error # None
    /\ \E k \in 1..Len(results) : results[k].error_type = Str("missing_response")

OutOfBounds(category, v) ==
    \/ category = "percentage_threshold" /\ (v < 0 \/ v > 100 * Unit)
    \/ category = "price_change" /\ (v > 1000 * Unit \/ v < -1000 * Unit)
    \/ category = "volatility" /\ v > 1000 * Unit

C5_MissingResponse ==
    /\ \A k \in 1..Len(results) :
           ~Answered(k)
               => /\ results[k].error_type = Str("missing_response")
                  /\ results[k].correct = FALSE
                  /\ results[k].is_hallucination = FALSE
                  /\ results[k].predicted = None
                  /\ results[k].absolute_error = None
    /\ pc = "done"
           => /\ summary.total_queries = Len(queries)
              /\ summary.correct_answers
                     = Cardinality({k \in 1..Len(results) :
                                       Answered(k) /\ results[k].correct})
              /\ summary.hallucination_count
                     = Cardinality({k \in 1..Len(results) :
                                       Answered(k) /\ results[k].is_hallucination})

\* A finished run with a missing response beside a correct answer.
C5_Witness ==
    /\ pc = "done"
    /\ \E k \in 1..Len(results) : ~Answered(k)
    /\ \E k \in 1..Len(results) : Answered(k) /\ results[k].correct

\* C6: on an empty store the run returns a summary with accuracy,
\* hallucination rate and mean error 0 and raises nothing; on a non-empty
\* one accuracy_percentage = correct_answers / total_queries * 100 and
\* hallucination_rate = hallucination_count / total_queries * 100.
C6_SummaryPercentages ==
    /\ (Len(queries) = 0 /\ pc # "loop")
           => /\ pc = "done"
              /\ summary.total_queries = 0
              /\ summary.accuracy_percentage = Ratio(0, 1)
              /\ summary.hallucination_rate = Ratio(0, 1)
              /\ summary.average_absolute_error = Ratio(0, 1)
    /\ (Len(queries) > 0 /\ pc = "done")
           => /\ summary.total_queries = Len(results)
              /\ summary.accuracy_percentage.num * summary.total_queries
                     = summary.correct_answers * 100 * summary.accuracy_percentage.den
              /\ summary.hallucination_rate.num * summary.total_queries
                     = summary.hallucination_count * 100 * summary.hallucination_rate.den

\* The run over the empty store has returned.
C6_Witness == Len(queries) = 0 /\ pc = "done" /\ summary # None

\* C7: a run never raises, whatever the store (explanation present or
\* not) and the responses; it returns one result per query, in store
\* order, and total_queries is the number of queries.
C7_RunCompletes ==
    /\ pc # "raised"
    /\ pc = "done"
           => /\ summary.total_queries = Len(queries)
              /\ Len(summary.results) = Len(queries)
              /\ \A k \in 1..Len(queries) :
                     summary.results[k].query_id = queries[k].id

(***************************************************************************)
(* Properties of calculate_question_score (GradeSpec).                     *)
(***************************************************************************)
Graded == grade_record # None

AllSubScoresZero ==
    /\ grade_record.accuracy_score = 0
    /\ grade_record.precision_score = 0
    /\ grade_record.quality_score = 0

\* C8: a missing_response result is graded score 0, grade F, all three
\* sub-scores 0, the only feedback 'No response provided', no penalty and
\* no bonus, whatever its other fields (is_hallucination included).
C8_MissingResponseGrade ==
    (Graded /\ evaluation_result.error_type = Str("missing_response"))
        => /\ grade_record.score = 0
           /\ grade_record.grade = "F"
           /\ AllSubScoresZero
           /\ grade_record.feedback = <<"No response provided">>
           /\ grade_record.penalties = <<>>
           /\ grade_record.bonuses = <<>>

\* A graded missing_response result that is also flagged and marked correct.
C8_Witness ==
    /\ Graded
    /\ evaluation_result.error_type = Str("missing_response")
    /\ evaluation_result.is_hallucination
    /\ evaluation_result.correct

\* C9: a flagged result that is not a missing response is graded score 0,
\* grade F, with the penalty 'Hallucination detected' and all three
\* sub-scores 0, whatever correct, predicted and absolute_error are.
C9_HallucinationGrade ==
    (/\ Graded
     /\ evaluation_result.is_hallucination
     /\ evaluation_result.error_type # Str("missing_response"))
        => /\ grade_record.score = 0
           /\ grade_record.grade = "F"
           /\ Member("Hallucination detected", grade_record.penalties)
           /\ AllSubScoresZero

\* A graded flagged result that is marked correct, with a number predicted.
C9_Witness ==
    /\ Graded
    /\ evaluation_result.is_hallucination
    /\ evaluation_result.error_type = Str("numeric_error")
    /\ evaluation_result.correct
    /\ IsNum(evaluation_result.predicted)

\* C10: on every branch the score is the weighted sum
\* 0.6*accuracy + 0.25*precision + 0.15*quality rounded to two decimals
\* (a multiple of 0.01 at most 0.005 away from it), and the three
\* sub-scores and the score lie in [0, 100].
C10_WeightedScore ==
    Graded
        => /\ \A x \in { grade_record.accuracy_score, grade_record.precision_score,
                         grade_record.quality_score, grade_record.score } :
                  0 <= x /\ x <= 100 * Unit
           /\ grade_record.score % Cent = 0
           /\ 2 * Abs(100 * grade_record.score
                          - (60 * grade_record.accuracy_score
                                 + 25 * grade_record.precision_score
                                 + 15 * grade_record.quality_score))
                  <= 100 * Cent

\* A fully scored result: error 2 on truth 10 gives accuracy 50, score 70.
C10_Witness ==
    /\ Graded
    /\ ~evaluation_result.is_hallucination
    /\ evaluation_result.error_type = Str("numeric_error")
    /\ grade_record.accuracy_score = 50 * Unit
    /\ grade_record.precision_score = 100 * Unit
    /\ grade_record.quality_score = 100 * Unit
    /\ grade_record.score = 70 * Unit

(***************************************************************************)
(* The methods of the grading scale called directly.  In these runs call   *)
(* is the list of the calls made, in order, and returned the list of the   *)
(* values they returned so far.                                            *)
(***************************************************************************)
\* The call that is to return next.
Pending == call[Len(returned) + 1]

\* No run of the evaluator and no grading is under way.
Idle ==
    /\ queries = <<>>
    /\ agent_responses = <<>>
    /\ results = <<>>
    /\ summary = None
    /\ evaluation_result = None
    /\ grade_record = None

GetGradeCall(score) == [method |-> "_get_grade", score |-> score]

\* Every score of two decimals in [0, 100], the scores next to a threshold
\* at the finest grain of a float, and two scores outside the range.
LookupScores ==
    { k * Cent : k \in 0..10000 }
        \cup UNION { {grade_thresholds[h][2] - 1, grade_thresholds[h][2] + 1}
                     : h \in 1..Len(grade_thresholds) }
        \cup { 100 * Unit + 1 }

GradeLookupInit ==
    /\ Idle
    /\ pc = "call"
    /\ call \in { <<GetGradeCall(score)>> : score \in LookupScores }
    /\ returned = <<>>

GetGrade ==
    /\ pc = "call"
    /\ Len(returned) < Len(call)
    /\ Pending.method = "_get_grade"
    /\ returned' = Append(returned, _get_grade(Pending.score))
    /\ UNCHANGED <<queries, agent_responses, results, summary, pc, evaluation_result,
                   grade_record, call>>

GradeLookupNext == GetGrade

GradeLookupSpec == GradeLookupInit /\ [][GradeLookupNext]_vars

\* The thirteen grades and the threshold of each, as a table.
GradeTable ==
    [ g \in {"A+", "A", "A-", "B+", "B", "B-", "C+", "C", "C-", "D+", "D", "D-", "F"}
        |-> CASE g = "A+" -> 95 * Unit [] g = "A" -> 90 * Unit [] g = "A-" -> 85 * Unit
              [] g = "B+" -> 80 * Unit [] g = "B" -> 75 * Unit [] g = "B-" -> 70 * Unit
              [] g = "C+" -> 65 * Unit [] g = "C" -> 60 * Unit [] g = "C-" -> 55 * Unit
              [] g = "D+" -> 50 * Unit [] g = "D" -> 45 * Unit [] g = "D-" -> 40 * Unit
              [] g = "F" -> 0 ]

\* C11: _get_grade is total on [0, 100]: a score gets one of the thirteen
\* grades, the one with the highest threshold the score meets or exceeds;
\* a score equal to a threshold gets that grade and a score below 40 gets F.
C11_GradeLookupTotal ==
    \A k \in 1..Len(returned) :
        (call[k].method = "_get_grade"
             /\ 0 <= call[k].score /\ call[k].score <= 100 * Unit)
            => /\ returned[k] \in DOMAIN GradeTable
               /\ GradeTable[returned[k]] <= call[k].score
               /\ \A g \in DOMAIN GradeTable :
                      GradeTable[g] <= call[k].score
                          => GradeTable[g] <= GradeTable[returned[k]]
               /\ call[k].score < 40 * Unit => returned[k] = "F"

\* A score equal to the threshold 70 has returned B-.
C11_Witness ==
    /\ Len(returned) = 1
    /\ call[1] = GetGradeCall(70 * Unit)
    /\ returned[1] = "B-"

(***************************************************************************)
(* Two calls of the same method of the grading scale, one after the other. *)
(***************************************************************************)
FinalScoreCall(accuracy, precision, quality) ==
    [method |-> "_calculate_final_score", accuracy |-> accuracy,
     precision |-> precision, quality |-> quality]

\* Sub-scores: the ends of the range, neighbours at the grain of two
\* decimals, and values whose weighted sum has to be rounded.
ComparedAccuracies ==
    { Hundredths(n) : n \in {0, 1, 2, 1000, 3333, 3334, 5000, 7000, 9500, 9999, 10000} }

ComparedSubScores == { Hundredths(n) : n \in {0, 3333, 5000, 10000} }

\* The thresholds and the scores 0.01 below and above each.
ComparedScores ==
    UNION { { grade_thresholds[h][2] - Cent, grade_thresholds[h][2],
              grade_thresholds[h][2] + Cent } : h \in 1..Len(grade_thresholds) }
        \cup { 100 * Unit }

MonotoneInit ==
    /\ Idle
    /\ pc = "call"
    /\ call \in { <<FinalScoreCall(a1, p, q), FinalScoreCall(a2, p, q)>>
                     : a1 \in ComparedAccuracies, a2 \in ComparedAccuracies,
                       p \in ComparedSubScores, q \in ComparedSubScores }
                 \cup { <<GetGradeCall(s1), GetGradeCall(s2)>>
                          : s1 \in ComparedScores, s2 \in ComparedScores }
    /\ returned = <<>>

CalculateFinalScore ==
    /\ pc = "call"
    /\ Len(returned) < Len(call)
    /\ Pending.method = "_calculate_final_score"
    /\ returned' = Append(returned, _calculate_final_score(Pending.accuracy,
                                                           Pending.precision,
                                                           Pending.quality))
    /\ UNCHANGED <<queries, agent_responses, results, summary, pc, evaluation_result,
                   grade_record, call>>

MonotoneNext == CalculateFinalScore \/ GetGrade

MonotoneSpec == MonotoneInit /\ [][MonotoneNext]_vars

\* C12: grading is monotonic: with the same precision and quality, the
\* larger accuracy_score never gets the smaller final score, and the larger
\* final score never gets the worse grade.
C12_Monotonic ==
    Len(returned) = 2
        => /\ (/\ call[1].method = "_calculate_final_score"
               /\ call[2].method = "_calculate_final_score"
               /\ call[1].precision = call[2].precision
               /\ call[1].quality = call[2].quality
               /\ call[1].accuracy <= call[2].accuracy)
                  => returned[1] <= returned[2]
           /\ (/\ call[1].method = "_get_grade"
               /\ call[2].method = "_get_grade"
               /\ call[1].score <= call[2].score)
                  => GradeTable[returned[1]] <= GradeTable[returned[2]]

\* A larger accuracy_score, with the same precision and quality, has got a
\* larger final score.
C12_Witness ==
    /\ Len(returned) = 2
    /\ call[1].method = "_calculate_final_score"
    /\ call[1].accuracy < call[2].accuracy
    /\ returned[1] < returned[2]

(***************************************************************************)
(* Properties of the accuracy score (GradeSpec).                           *)
(***************************************************************************)
\* The graded result is wrong, not flagged, a numeric error with an error
\* value, against a number other than zero.
RelativeErrorCase ==
    /\ Graded
    /\ ~evaluation_result.correct
    /\ ~evaluation_result.is_hallucination
    /\ evaluation_result.error_type = Str("numeric_error")
    /\ evaluation_result.absolute_error # None
    /\ IsNum(evaluation_result.truth)
    /\ evaluation_result.truth.v # 0

\* The band of a relative error e / t, as the pair of its bounds in
\* percent (lower exclusive, upper inclusive) and its score.
ErrorBands ==
    { <<-1, 1, 95>>, <<1, 5, 85>>, <<5, 10, 70>>, <<10, 25, 50>>, <<25, 50, 30>> }

\* C13: for a wrong, unflagged numeric_error result against a non-zero
\* truth, accuracy_score is the step function of r = |absolute_error/truth|:
\* r <= 1% -> 95, <= 5% -> 85, <= 10% -> 70, <= 25% -> 50, <= 50% -> 30,
\* else 10, every boundary inclusive; absolute_error 2 on truth 10 gives
\* accuracy 50, score 70.0 and grade B-.
C13_RelativeErrorSteps ==
    RelativeErrorCase
        => \E e \in { IF evaluation_result.absolute_error.v >= 0
                       THEN evaluation_result.absolute_error.v
                       ELSE -evaluation_result.absolute_error.v },
              t \in { IF evaluation_result.truth.v >= 0
                       THEN evaluation_result.truth.v
                       ELSE -evaluation_result.truth.v } :
               /\ \A b \in ErrorBands :
                      (b[1] * t < 100 * e /\ 100 * e <= b[2] * t)
                          => grade_record.accuracy_score = b[3] * Unit
               /\ 100 * e > 50 * t => grade_record.accuracy_score = 10 * Unit
               /\ (e = 2 * Unit /\ evaluation_result.truth.v = 10 * Unit
                       /\ IsNum(evaluation_result.predicted))
                      => /\ grade_record.accuracy_score = 50 * Unit
                         /\ grade_record.score = 70 * Unit
                         /\ grade_record.grade = "B-"

\* A graded result whose relative error is exactly 10% (1.0 on 10.0), with
\* accuracy 70.
C13_Witness ==
    /\ RelativeErrorCase
    /\ evaluation_result.absolute_error = Num(Unit)
    /\ evaluation_result.truth = Num(10 * Unit)
    /\ grade_record.accuracy_score = 70 * Unit

(***************************************************************************)
(* A ranking classified and then graded: evaluate_agent_response from the  *)
(* point where predicted is known (the accuracy, the hallucination flag,   *)
(* the result record), followed by calculate_question_score on the result. *)
(* predicted is any list, whatever text it may have come from.             *)
(***************************************************************************)
RankedSymbols == {"SOL", "ETH", "TAO", "BTC"}

\* The lists of at most three symbols, the empty one included.
RankedLists ==
    UNION { [1..len -> RankedSymbols] : len \in 0..3 }

RankedTruths ==
    { <<"ETH", "SOL", "TAO">>, <<"ETH", "TAO", "SOL">>, <<"ETH", "SOL">> }

RankingQuery(truth) ==
    Explained(Query("rank_by_avg_close", "Rank the tokens by average close price.",
                    "performance_comparison", List(truth)))

RankingInit ==
    /\ Idle
    /\ pc = "classify"
    /\ call \in [ method : {"_calculate_accuracy"},
                   predicted : {List(l) : l \in RankedLists},
                   truth : {List(l) : l \in RankedTruths},
                   category : {"performance_comparison"} ]
    /\ returned = None

ClassifyRanking ==
    /\ pc = "classify"
    /\ \E accuracy \in {_calculate_accuracy(call.predicted, call.truth, call.category)} :
           /\ returned' = accuracy
           /\ evaluation_result' = ResultRecord(RankingQuery(call.truth.v), None,
                                                DefaultAgentName, call.predicted,
                                                accuracy)
    /\ pc' = "grade"
    /\ UNCHANGED <<queries, agent_responses, results, summary, grade_record, call>>

RankingNext == ClassifyRanking \/ GradeQuestion

RankingSpec == RankingInit /\ [][RankingNext]_vars

\* The two lists are equal element by element, in the same order.
SameSequence(p, t) == Len(p) = Len(t) /\ \A k \in 1..Len(p) : p[k] = t[k]

\* The grade record of a wrong ranking: no partial credit.
WrongRankingGrade ==
    /\ grade_record.accuracy_score = 40 * Unit
    /\ grade_record.score = 64 * Unit
    /\ grade_record.grade = "C"

ExtractorCall(method, text) == [method |-> method, text |-> text]

TokenNameCall(text, token_list) ==
    [method |-> "_extract_token_name", text |-> text, token_list |-> token_list]

RankingTexts ==
    { "ETH, SOL, TAO", "ETH->SOL->TAO", "ETH > SOL > TAO", "tao then eth",
      "SOL, SOL, ETH, SOL", "Ethereum and Solana", "ETH beats Solana",
      "TAO, Ethereum, Solana", "sol/eth/tao", "1. SOL 2. ETH 3. TAO",
      "BTC, ETH", "TAO is first; ETH, SOL follow" }

NumberContextTexts ==
    { "$33.15", "about 2.31", "approximately -1.16", "It went down 5 then up 3.",
      "increased by 4.2", "up 3.5%", "decreased by -2", "down 0", "+5 down",
      "roughly around .5 lower", "supply grew 7", "no number here",
      "between 3-5", "SOL-5", "do$wn 5", "downtown 5" }

TokenTexts ==
    { "ETH and SOL", "sol then eth", "Ethereum, then Solana", "Bitcoin",
      "tao", "the metaotao index" }

ExtractionTexts ==
    Responses \cup { Str(x) : x \in RankingTexts \cup NumberContextTexts \cup TokenTexts }

TokenLists ==
    { ValidTokens, <<"ETH", "SOL", "TAO">>, <<"TAO", "BTC">> }

ExtractorCalls ==
    { ExtractorCall(m, x) : m \in { "_extract_numeric_percentage",
                                    "_extract_plain_number",
                                    "_extract_date_from_text",
                                    "_normalize_ranking" },
                            x \in ExtractionTexts }
        \cup { TokenNameCall(x, l) : x \in ExtractionTexts, l \in TokenLists }

ExtractionInit ==
    /\ Idle
    /\ pc = "call"
    /\ call \in { <<c>> : c \in ExtractorCalls }
    /\ returned = <<>>

\* The call that is to return next is one of the method named.
Calling(method) ==
    /\ pc = "call"
    /\ Len(returned) < Len(call)
    /\ Pending.method = method

ExtractNumericPercentage ==
    /\ Calling("_extract_numeric_percentage")
    /\ returned' = Append(returned, _extract_numeric_percentage(Pending.text))
    /\ UNCHANGED <<queries, agent_responses, results, summary, pc, evaluation_result,
                   grade_record, call>>

ExtractPlainNumber ==
    /\ Calling("_extract_plain_number")
    /\ returned' = Append(returned, _extract_plain_number(Pending.text))
    /\ UNCHANGED <<queries, agent_responses, results, summary, pc, evaluation_result,
                   grade_record, call>>

ExtractTokenName ==
    /\ Calling("_extract_token_name")
    /\ returned' = Append(returned, _extract_token_name(Pending.text, Pending.token_list))
    /\ UNCHANGED <<queries, agent_responses, results, summary, pc, evaluation_result,
                   grade_record, call>>

ExtractDateFromText ==
    /\ Calling("_extract_date_from_text")
    /\ returned' = Append(returned, _extract_date_from_text(Pending.text))
    /\ UNCHANGED <<queries, agent_responses, results, summary, pc, evaluation_result,
                   grade_record, call>>

NormalizeRanking ==
    /\ Calling("_normalize_ranking")
    /\ returned' = Append(returned, _normalize_ranking(Pending.text))
    /\ UNCHANGED <<queries, agent_responses, results, summary, pc, evaluation_result,
                   grade_record, call>>

ExtractionNext ==
    \/ ExtractNumericPercentage
    \/ ExtractPlainNumber
    \/ ExtractTokenName
    \/ ExtractDateFromText
    \/ NormalizeRanking

ExtractionSpec == ExtractionInit /\ [][ExtractionNext]_vars

(***************************************************************************)
(* Properties of the extractors (ExtractionSpec).                          *)
(***************************************************************************)
\* The text _normalize_ranking scans: upper case, connector words and
\* separators removed.
CleanedRankingText(text) ==
    Only({ Collapse(t3, {","} \cup Whitespace)
           : t3 \in { Collapse(t2, {"-", ">"} \cup Whitespace)
                      : t2 \in { RemoveWords(t1, <<"ranked", "ranking", "order", "by",
                                                   "as", "follows", "follow", "is", "are">>)
                                 : t1 \in {upper(text)} } } })

\* The members of set in the order of the sequence canonical.
InOrderOf(canonical, set) == SelectSeq(canonical, LAMBDA x : x \in set)

\* The ranking read off a cleaned text t: the valid tokens among its words
\* by first appearance, then, if they are one or two, the other valid
\* tokens that occur in t, in the order SOL, ETH, TAO.
RankingReadOff(t) ==
    LET words == split(t)
        whole == { x \in {"SOL", "ETH", "TAO"} : \E i \in 1..Len(words) : words[i] = x }
        firstAt(x) == CHOOSE i \in 1..Len(words) :
                          words[i] = x /\ \A j \in 1..(i - 1) : words[j] # x
        ordered == CHOOSE f \in [1..Cardinality(whole) -> whole] :
                       \A i, j \in 1..Cardinality(whole) :
                           i < j => firstAt(f[i]) < firstAt(f[j])
        others == { x \in {"SOL", "ETH", "TAO"} \ whole : Contains(t, x) }
    IN  IF whole # {} /\ Cardinality(whole) < 3
        THEN ordered \o InOrderOf(<<"SOL", "ETH", "TAO">>, others)
        ELSE ordered

\* C15: _normalize_ranking returns the valid tokens that are whole words of
\* the cleaned text, by first appearance and none twice; if one or two were
\* found, the other valid tokens that occur anywhere in the cleaned text
\* follow in the order SOL, ETH, TAO.  "Ranked by average close price: ETH,
\* TAO, SOL." yields ETH, TAO, SOL.
C15_RankingOrder ==
    \A k \in 1..Len(returned) :
        (call[k].method = "_normalize_ranking" /\ ~Falsy(call[k].text))
            => /\ \E r \in {RankingReadOff(CleanedRankingText(call[k].text.v))} :
                      returned[k] = IF r = <<>> THEN None ELSE List(r)
               /\ call[k].text = Str("Ranked by average close price: ETH, TAO, SOL.")
                      => returned[k] = List(<<"ETH", "TAO", "SOL">>)

\* The example of the claim has returned: SOL comes from the second pass.
C15_Witness ==
    /\ Len(returned) = 1
    /\ call[1] = ExtractorCall("_normalize_ranking",
                               Str("Ranked by average close price: ETH, TAO, SOL."))
    /\ returned[1] = List(<<"ETH", "TAO", "SOL">>)

\* The symbol x occurs in the text, whatever the case of the letters.
OccursIgnoringCase(text, x) == Contains(lower(text), lower(x))

\* C16: _extract_token_name returns the first symbol of the token list, in
\* the order of the list, that occurs in the response as a substring
\* whatever its case, and null if none does; where the symbols stand in
\* the text does not matter (ETH and SOL both occurring, SOL is returned
\* for the default list).
C16_FirstTokenOfList ==
    \A k \in 1..Len(returned) :
        (call[k].method = "_extract_token_name" /\ call[k].text # None)
            => \E occurring \in { { h \in 1..Len(call[k].token_list) :
                                       OccursIgnoringCase(call[k].text.v,
                                                          call[k].token_list[h]) } } :
                   /\ occurring = {} => returned[k] = None
                   /\ occurring # {}
                          => \E h \in occurring :
                                 /\ \A g \in occurring : h <= g
                                 /\ returned[k] = Str(call[k].token_list[h])
                   /\ (/\ call[k].token_list = <<"SOL", "ETH", "TAO">>
                       /\ OccursIgnoringCase(call[k].text.v, "ETH")
                       /\ OccursIgnoringCase(call[k].text.v, "SOL"))
                          => returned[k] = Str("SOL")

\* "ETH and SOL", where ETH stands first, has returned SOL.
C16_Witness ==
    /\ Len(returned) = 1
    /\ call[1] = TokenNameCall(Str("ETH and SOL"), <<"SOL", "ETH", "TAO">>)
    /\ returned[1] = Str("SOL")

\* The lower-cased text without '$' and without the hedge words.
StrippedNumberText(text) ==
    Only({ RemoveWords(t2, <<"about", "approximately", "roughly", "around">>)
           : t2 \in { RemoveChar(t1, "$") : t1 \in {lower(text)} } })

\* The text holds one of the words of a negative context.
NegativeContext(t) ==
    Contains(t, "decrease") \/ Contains(t, "decreased") \/ Contains(t, "down")

\* The number the call k is to return when the sign context is read in the
\* text context: the first decimal of the stripped text, negated if it is
\* positive and the context negative; None without a decimal.
SignedFirstNumber(stripped, context) ==
    Only({ IF m = None THEN None
           ELSE Only({ IF NegativeContext(context) /\ value > 0
                       THEN Num(0 - value) ELSE Num(value)
                       : value \in {float(m.v)} })
           : m \in {SearchNumber(stripped, {""})} })

\* C17, as stated: _extract_plain_number returns the first decimal of the
\* response without '$' and hedge words, negated when it is positive and
\* the lower-cased response holds 'decrease', 'decreased' or 'down', even
\* beside 'increase' or 'up'; otherwise unchanged.  "SOL's price decreased
\* by about 2.3% over the 30-day period." yields -2.3.
C17_SignFromResponse ==
    \A k \in 1..Len(returned) :
        (call[k].method = "_extract_plain_number" /\ ~Falsy(call[k].text))
            => /\ returned[k] = SignedFirstNumber(StrippedNumberText(call[k].text.v),
                                                  lower(call[k].text.v))
               /\ call[k].text
                      = Str("SOL's price decreased by about 2.3% over the 30-day period.")
                      => returned[k] = Num(0 - (23 * Unit) \div 10)

\* C17, amended: the same, the negative-context word being looked for in
\* the lower-cased response after '$' and the hedge words were removed.
C17_SignFromStrippedText ==
    \A k \in 1..Len(returned) :
        (call[k].method = "_extract_plain_number" /\ ~Falsy(call[k].text))
            => /\ returned[k] = SignedFirstNumber(StrippedNumberText(call[k].text.v),
                                                  StrippedNumberText(call[k].text.v))
               /\ call[k].text
                      = Str("SOL's price decreased by about 2.3% over the 30-day period.")
                      => returned[k] = Num(0 - (23 * Unit) \div 10)

\* A text with 'down' and 'up' in it has returned the negated number.
C17_Witness ==
    /\ Len(returned) = 1
    /\ call[1] = ExtractorCall("_extract_plain_number", Str("It went down 5 then up 3."))
    /\ returned[1] = Num(0 - 5 * Unit)

(***************************************************************************)
(* The extractors called again and again on an evaluator that has its      *)
(* queries loaded: up to MaxCalls calls in a row, any method after any.    *)
(***************************************************************************)
RepeatedTexts ==
    { Str("ETH had its highest close on 2025-06-11."),
      Str("SOL decreased by about 13%.") }

RepeatedCalls ==
    { ExtractorCall(m, x) : m \in { "_extract_numeric_percentage",
                                    "_extract_plain_number",
                                    "_extract_date_from_text",
                                    "_normalize_ranking" },
                            x \in RepeatedTexts }
        \cup { TokenNameCall(x, ValidTokens) : x \in RepeatedTexts }

\* The store the evaluator was constructed with.
LoadedQueries ==
    CHOOSE store \in CoreStores(2) :
        /\ Len(store) = 2
        /\ \A k \in 1..2 : "explanation" \in DOMAIN store[k]

RepeatInit ==
    /\ queries = LoadedQueries
    /\ agent_responses = <<>>
    /\ results = <<>>
    /\ summary = None
    /\ evaluation_result = None
    /\ grade_record = None
    /\ pc = "call"
    /\ call \in [1..MaxCalls -> RepeatedCalls]
    /\ returned = <<>>

RepeatNext ==
    \/ ExtractNumericPercentage
    \/ ExtractPlainNumber
    \/ ExtractTokenName
    \/ ExtractDateFromText
    \/ NormalizeRanking

RepeatSpec == RepeatInit /\ [][RepeatNext]_vars

\* Calls of the same extractor with the same text have returned the same.
SameCallSameValue ==
    \A i, j \in 1..Len(returned) : call[i] = call[j] => returned[i] = returned[j]

Bool(b) == [t |-> "bool", v |-> b]
Dict(d) == [t |-> "dict", v |-> d]

Exception(type, message) == [raised |-> type, message |-> message]

\* str.strip()
strip(text) ==
    IF \A i \in 1..Len(text) : Ch(text, i) \in Whitespace THEN ""
    ELSE SubSeq(text,
                CHOOSE i \in 1..Len(text) :
                    /\ Ch(text, i) \notin Whitespace
                    /\ \A h \in 1..(i - 1) : Ch(text, h) \in Whitespace,
                CHOOSE j \in 1..Len(text) :
                    /\ Ch(text, j) \notin Whitespace
                    /\ \A h \in (j + 1)..Len(text) : Ch(text, h) \in Whitespace)

\* The code fence of three backquotes. A TLA+ string cannot hold a backquote:
\* the character ~ stands for it in every text of the judge path.
Fence == "~~~"

\* The verdict the judge is asked for, in full.
FullVerdict ==
    [correct |-> Bool(TRUE), extracted_value |-> Num(13 * Unit),
     is_hallucination |-> Bool(FALSE), is_refusal |-> Bool(FALSE),
     error_type |-> Str("correct"), absolute_error |-> Num(0),
     explanation |-> Str("ok")]

FullVerdictText ==
    "{\"correct\":true,\"extracted_value\":13,\"is_hallucination\":false,"
        \o "\"is_refusal\":false,\"error_type\":\"correct\","
        \o "\"absolute_error\":0,\"explanation\":\"ok\"}"

FieldNamesText ==
    "correct extracted_value is_hallucination is_refusal error_type "
        \o "absolute_error explanation"

\* json.loads on the texts the backend is made to reply with: the JSON
\* documents among them and their values; every other one of them starts
\* with no JSON value.
JsonDocuments ==
    { <<"{}", Dict(<<>>)>>,
      <<"{\"correct\":true}", Dict([correct |-> Bool(TRUE)])>>,
      <<"{\"correct\":false,\"is_refusal\":true}",
        Dict([correct |-> Bool(FALSE), is_refusal |-> Bool(TRUE)])>>,
      <<FullVerdictText, Dict(FullVerdict)>>,
      <<"[]", List(<<>>)>>,
      <<"[1]", List(<<Num(Unit)>>)>>,
      <<"[\"ETH\", \"SOL\", \"TAO\"]", List(<<Str("ETH"), Str("SOL"), Str("TAO")>>)>>,
      <<"[\"eth\",\"tao\"]", List(<<Str("eth"), Str("tao")>>)>>,
      <<"[\"ETH\",\"BTC\"]", List(<<Str("ETH"), Str("BTC")>>)>>,
      <<"null", None>>,
      <<"42", Num(42 * Unit)>>,
      <<"true", Bool(TRUE)>>,
      <<"\"ok\"", Str("ok")>>,
      <<"\"" \o FieldNamesText \o "\"", Str(FieldNamesText)>> }

json_loads(text) ==
    IF \E doc \in JsonDocuments : doc[1] = text
    THEN (CHOOSE doc \in JsonDocuments : doc[1] = text)[2]
    ELSE Exception("JSONDecodeError", "Expecting value: line 1 column 1 (char 0)")

required_fields ==
    <<"correct", "extracted_value", "is_hallucination", "is_refusal",
      "error_type", "absolute_error", "explanation">>

RequiredFieldSet == {required_fields[k] : k \in 1..Len(required_fields)}

\* `field not in evaluation` followed by `evaluation[field] = None`, for each
\* required field: a dict gets the fields it lacks; a list or a str lacking
\* one cannot be assigned to; None, a number and a bool cannot be searched.
WithRequiredFields(evaluation) ==
    IF evaluation.t = "dict"
    THEN Dict([f \in DOMAIN evaluation.v \cup RequiredFieldSet |->
                  IF f \in DOMAIN evaluation.v THEN evaluation.v[f] ELSE None])
    ELSE IF evaluation.t = "list"
    THEN IF \A k \in 1..Len(required_fields) :
                \E h \in 1..Len(evaluation.v) : evaluation.v[h] = Str(required_fields[k])
         THEN evaluation
         ELSE Exception("TypeError", "list indices must be integers or slices, not str")
    ELSE IF evaluation.t = "str"
    THEN IF \A k \in 1..Len(required_fields) : Contains(evaluation.v, required_fields[k])
         THEN evaluation
         ELSE Exception("TypeError", "'str' object does not support item assignment")
    ELSE IF evaluation.t = "None"
    THEN Exception("TypeError", "argument of type 'NoneType' is not iterable")
    ELSE IF evaluation.t = "bool"
    THEN Exception("TypeError", "argument of type 'bool' is not iterable")
    ELSE Exception("TypeError", "argument of type 'int' is not iterable")

\* The try block: the request, the code fence taken off the reply, the
\* parse and the required fields.
JudgeAttempt(backend) ==
    IF backend.outcome # "reply" THEN Exception(backend.outcome, backend.message)
    ELSE IF backend.content = None
    THEN Exception("AttributeError", "'NoneType' object has no attribute 'strip'")
    ELSE Only({ Only({ Only({ IF Raised(evaluation) THEN evaluation
                              ELSE WithRequiredFields(evaluation)
                              : evaluation \in {json_loads(strip(unfenced))} })
                       : unfenced \in
                           { IF Len(opened) >= 3
                                /\ SubSeq(opened, Len(opened) - 2, Len(opened)) = Fence
                             THEN SubSeq(opened, 1, Len(opened) - 3)
                             ELSE opened } })
                : opened \in
                    { IF StartsWithAt(result_text, 1, Fence \o "json")
                      THEN SubSeq(result_text, 8, Len(result_text))
                      ELSE result_text
                      : result_text \in {strip(backend.content.v)} } })

\* The except block: the verdict of a failed evaluation; the refusal test
\* calls lower() on the response, which None does not have.
JudgeFallback(agent_response, e) ==
    IF agent_response = None
    THEN Exception("AttributeError", "'NoneType' object has no attribute 'lower'")
    ELSE Dict([correct |-> Bool(FALSE),
               extracted_value |-> None,
               is_hallucination |-> Bool(FALSE),
               is_refusal |->
                   Only({ Bool(Contains(lowered, "don't have access")
                                   \/ Contains(lowered, "cannot provide"))
                          : lowered \in {lower(agent_response.v)} }),
               error_type |-> Str("evaluation_failed"),
               absolute_error |-> None,
               explanation |-> Str("LLM evaluation failed: " \o e.message)])

_evaluate_with_llm_judge(agent_response, backend) ==
    Only({ IF Raised(attempt) THEN JudgeFallback(agent_response, attempt) ELSE attempt
           : attempt \in {JudgeAttempt(backend)} })

\* evaluate_agent_response of the judge path: the query found, the verdict
\* asked for and its seven fields read into the result.
JudgedResponse(query_id, agent_response, agent_name, evaluation) ==
    Only({ IF query = None THEN Exception("ValueError", "Query ID " \o query_id \o " not found")
           ELSE IF Raised(evaluation) THEN evaluation
           ELSE IF evaluation.t = "str"
           THEN Exception("TypeError", "string indices must be integers, not 'str'")
           ELSE IF evaluation.t = "list"
           THEN Exception("TypeError", "list indices must be integers or slices, not str")
           ELSE [query_id |-> query_id,
                 question |-> query.question,
                 category |-> query.category,
                 truth |-> query.truth,
                 explanation |-> IF "explanation" \in DOMAIN query
                                 THEN query.explanation ELSE "",
                 agent_name |-> agent_name,
                 agent_response |-> agent_response,
                 predicted |-> evaluation.v.extracted_value,
                 correct |-> evaluation.v.correct,
                 absolute_error |-> evaluation.v.absolute_error,
                 error_type |-> evaluation.v.error_type,
                 is_hallucination |-> evaluation.v.is_hallucination,
                 is_refusal |-> evaluation.v.is_refusal,
                 llm_evaluation_explanation |-> evaluation.v.explanation]
           : query \in {FindQuery(query_id)} })

JudgedResponses ==
    { None, Str(""), Str("about 13%"),
      Str("I don't have access to this data."),
      Str("I CANNOT PROVIDE that figure.") }

BackendReplies ==
    { None, Str(""), Str("not json"), Str("  {}  "), Str(Fence \o "json{}" \o Fence),
      Str(Fence \o "json {\"correct\":true} " \o Fence),
      Str("{}" \o Fence), Str(Fence \o "{}" \o Fence),
      Str(Fence \o "json\n" \o FullVerdictText \o "\n" \o Fence),
      Str(Fence \o "\n" \o FullVerdictText \o "\n" \o Fence),
      Str("{\"correct\":false,\"is_refusal\":true}"), Str(FullVerdictText),
      Str("[]"), Str("null"), Str("42"), Str("true"), Str("\"ok\""),
      Str("\"" \o FieldNamesText \o "\"") }

BackendOutcomes ==
    { [outcome |-> "APIConnectionError", message |-> "Connection error."],
      [outcome |-> "APITimeoutError", message |-> "Request timed out."] }
        \cup { [outcome |-> "reply", content |-> c] : c \in BackendReplies }

JudgeInit ==
    /\ queries \in {<<q>> : q \in CoreQueries}
    /\ agent_responses = <<>>
    /\ results = <<>>
    /\ summary = None
    /\ evaluation_result = None
    /\ grade_record = None
    /\ pc = "call"
    /\ call \in [query_id : Ids(queries), agent_response : JudgedResponses,
                 backend : BackendOutcomes]
    /\ returned = None

\* One call of evaluate_agent_response: `returned` keeps what the judge
\* call inside it gave back, evaluation_result the result or the exception.
EvaluateJudged ==
    /\ pc = "call"
    /\ "backend" \in DOMAIN call
    /\ \E evaluation \in {_evaluate_with_llm_judge(call.agent_response, call.backend)} :
       \E result \in {JudgedResponse(call.query_id, call.agent_response,
                                     DefaultAgentName, evaluation)} :
           /\ returned' = evaluation
           /\ evaluation_result' = result
           /\ pc' = IF Raised(result) THEN "raised" ELSE "returned"
    /\ UNCHANGED <<queries, agent_responses, results, summary, grade_record, call>>

JudgeNext == EvaluateJudged

JudgeSpec == JudgeInit /\ [][JudgeNext]_vars

\* The backend call or the parse of its reply failed.
JudgeFailed == Raised(JudgeAttempt(call.backend))

\* C19: the judge path never raises: whatever the response (a text, the
\* empty text or null) and whatever the backend does, the judge returns a
\* verdict with all seven fields, and after a failure of the backend or of
\* the parse the verdict is correct = false, extracted_value = null,
\* is_hallucination = false, error_type = 'evaluation_failed'.
C19_JudgeNeverRaises ==
    /\ pc # "raised"
    /\ pc = "returned" =>
           /\ returned.t = "dict"
           /\ RequiredFieldSet \subseteq DOMAIN returned.v
           /\ JudgeFailed =>
                  /\ returned.v.correct = Bool(FALSE)
                  /\ returned.v.extracted_value = None
                  /\ returned.v.is_hallucination = Bool(FALSE)
                  /\ returned.v.error_type = Str("evaluation_failed")

(***************************************************************************)
(* The model-based extractor _extract_with_llm (src/scripts/eval.py).      *)
(* What the network does with the one request is an input of the call:    *)
(* the request raises, it times out, or a response with a status comes     *)
(* back; `content` is what response.json()["choices"][0]["message"]        *)
(* ["content"] gives for it: a text, None, or the exception it raises.     *)
(* call.requests counts the requests the invocation has posted.            *)
(***************************************************************************)
\* Variant: a token reply is handed back without looking it up.
ParseExtracted_unvalidated(expected_type, extracted_text) ==
    IF expected_type = "token" THEN Str(upper(extracted_text)) ELSE None

\* float(extracted_text) for the replies: a decimal with or without a sign
\* and a point is a number, every other one of them a ValueError (no reply
\* is written with an exponent, an underscore, nan or inf).
FloatOfText(text) ==
    IF \/ NumberEndAt(text, 1) = Len(text) + 1
       \/ /\ Len(text) >= 2
          /\ Ch(text, Len(text)) = "."
          /\ NumberEndAt(text, 1) = Len(text)
    THEN Num(float(text))
    ELSE Exception("ValueError", "could not convert string to float")

\* The items of a parsed ranking in upper case, when each is a symbol;
\* upper() of an item that is no str raises.
UpperSymbols(tokens) ==
    IF tokens.t # "list" THEN Exception("TypeError", "not iterable")
    ELSE IF \E k \in 1..Len(tokens.v) :
                /\ \A h \in 1..(k - 1) :
                       tokens.v[h].t = "str" /\ Member(upper(tokens.v[h].v), ValidTokens)
                /\ tokens.v[k].t # "str"
    THEN Exception("AttributeError", "object has no attribute 'upper'")
    ELSE IF \A k \in 1..Len(tokens.v) : Member(upper(tokens.v[k].v), ValidTokens)
    THEN List([k \in 1..Len(tokens.v) |-> upper(tokens.v[k].v)])
    ELSE None

\* The parse of the reply by the expected type.
ParseExtracted(expected_type, extracted_text) ==
    IF expected_type \in {"number", "percentage"}
    THEN Only({ IF Raised(value) THEN None ELSE value
                : value \in {FloatOfText(extracted_text)} })
    ELSE IF expected_type = "date"
    THEN IF DateMatchAt(extracted_text, 1) THEN Str(extracted_text) ELSE None
    ELSE IF expected_type = "token"
    THEN Only({ IF Member(symbol, ValidTokens) THEN Str(symbol) ELSE None
                : symbol \in {upper(extracted_text)} })
    ELSE IF expected_type = "ranking"
    THEN IF StartsWithAt(extracted_text, 1, "[")
            /\ StartsWithAt(extracted_text, Len(extracted_text), "]")
         THEN Only({ IF Raised(tokens) THEN None
                     ELSE Only({ IF Raised(symbols) THEN None ELSE symbols
                                 : symbols \in {UpperSymbols(tokens)} })
                     : tokens \in {json_loads(extracted_text)} })
         ELSE None
    ELSE Str(extracted_text)

\* The try block once the request was posted.
ExtractAttempt(expected_type, network) ==
    IF network.outcome # "response" THEN Exception(network.outcome, "")
    ELSE IF network.status_code # 200 THEN None
    ELSE IF Raised(network.content) THEN network.content
    ELSE IF network.content = None
    THEN Exception("AttributeError", "'NoneType' object has no attribute 'strip'")
    ELSE ParseExtracted(expected_type, strip(network.content.v))

_extract_with_llm(expected_type, network) ==
    Only({ IF Raised(attempt) THEN None ELSE attempt
           : attempt \in {ExtractAttempt(expected_type, network)} })

ExpectedTypes == {"number", "percentage", "date", "token", "ranking", "text"}

ExtractedReplies ==
    { Str("42.5"), Str(" -2.3 "), Str("+7"), Str(".5"), Str("5."), Str("15.3%"),
      Str("about 13"), Str("1.2.3"), Str("null"), Str(""),
      Str("2025-06-11"), Str("2025-06-11 (ETH)"), Str("on 2025-06-11"),
      Str("June 11, 2025"),
      Str("ETH"), Str("eth"), Str("Sol"), Str("BTC"), Str("ETH and SOL"),
      Str("[\"ETH\", \"SOL\", \"TAO\"]"), Str("[\"eth\",\"tao\"]"),
      Str("[\"ETH\",\"BTC\"]"), Str("[]"), Str("[1]"), Str("[ETH, SOL]"),
      Str("[\"ETH\",]"), Str("ETH, SOL, TAO") }

NetworkOutcomes ==
    { [outcome |-> "ConnectionError"], [outcome |-> "Timeout"] }
        \cup { [outcome |-> "response", status_code |-> code, content |-> Str("ETH")]
               : code \in {401, 429, 500} }
        \cup { [outcome |-> "response", status_code |-> 200, content |-> c]
               : c \in ExtractedReplies
                         \cup { None, Exception("KeyError", "'choices'"),
                                Exception("JSONDecodeError",
                                          "Expecting value: line 1 column 1 (char 0)") } }

LlmInit ==
    /\ queries = LoadedQueries
    /\ agent_responses = <<>>
    /\ results = <<>>
    /\ summary = None
    /\ evaluation_result = None
    /\ grade_record = None
    /\ pc = "call"
    /\ call \in [agent_response : {None, Str("ETH was the most volatile.")},
                 expected_type : ExpectedTypes,
                 network : NetworkOutcomes,
                 requests : {0}]
    /\ returned = None

\* requests.post: the one request of the invocation goes out.
PostRequest ==
    /\ pc = "call"
    /\ "network" \in DOMAIN call
    /\ call' = [call EXCEPT !.requests = @ + 1]
    /\ pc' = "sent"
    /\ UNCHANGED <<queries, agent_responses, results, summary, evaluation_result,
                   grade_record, returned>>

\* The outcome of the request handled and the value returned.
ReturnExtracted ==
    /\ pc = "sent"
    /\ \E value \in {_extract_with_llm(call.expected_type, call.network)} :
           /\ returned' = value
           /\ pc' = IF Raised(value) THEN "raised" ELSE "returned"
    /\ UNCHANGED <<queries, agent_responses, results, summary, evaluation_result,
                   grade_record, call>>

LlmNext == PostRequest \/ ReturnExtracted

LlmSpec == LlmInit /\ [][LlmNext]_vars

\* The reply of a response with status 200, as the code strips it.
ReplyText == strip(call.network.content.v)

HasReply ==
    /\ call.network.outcome = "response"
    /\ call.network.status_code = 200
    /\ ~Raised(call.network.content)
    /\ call.network.content # None

\* The texts that are a JSON list of valid symbols.
SymbolLists ==
    { "[\"ETH\", \"SOL\", \"TAO\"]", "[\"eth\",\"tao\"]", "[]" }

\* The reply cannot be parsed as the expected type: a text with a character
\* no number has (or none at all) for number and percentage, no leading
\* YYYY-MM-DD for date, a symbol outside {SOL, ETH, TAO} for token, anything
\* but a JSON list of valid symbols for ranking.
Unparseable ==
    \/ /\ call.expected_type \in {"number", "percentage"}
       /\ \/ ReplyText = ""
          \/ \E i \in 1..Len(ReplyText) :
                 Ch(ReplyText, i) \notin DigitSet \cup {"+", "-", "."}
    \/ /\ call.expected_type = "date"
       /\ \/ Len(ReplyText) < 10
          \/ \E i \in 1..10 :
                 IF i \in {5, 8} THEN Ch(ReplyText, i) # "-"
                 ELSE Ch(ReplyText, i) \notin DigitSet
    \/ /\ call.expected_type = "token"
       /\ upper(ReplyText) \notin {"SOL", "ETH", "TAO"}
    \/ /\ call.expected_type = "ranking"
       /\ ReplyText \notin SymbolLists

FencedVerdictReplied ==
    /\ call.backend.outcome = "reply"
    /\ call.backend.content
           \in { Str(Fence \o "json\n" \o FullVerdictText \o "\n" \o Fence),
                 Str(Fence \o "\n" \o FullVerdictText \o "\n" \o Fence) }

\* C21: in judge mode a valid JSON verdict wrapped in a code fence is
\* unwrapped and yields that verdict, with the 'json' tag on the opening
\* fence and without it; a reply that does not parse after the unwrapping
\* yields the 'evaluation_failed' verdict, not an exception (stated for the
\* responses that are a text).
C21_FenceUnwrapped ==
    (pc # "call" /\ call.agent_response # None) =>
        /\ FencedVerdictReplied => returned = Dict(FullVerdict)
        /\ (call.backend.outcome = "reply" /\ JudgeFailed) =>
               /\ ~Raised(returned)
               /\ returned.v.error_type = Str("evaluation_failed")

\* What holds: the fence with the tag is taken off and the verdict returned.
C21_TaggedFenceUnwrapped ==
    (pc # "call" /\ call.backend.outcome = "reply"
        /\ call.backend.content
               = Str(Fence \o "json\n" \o FullVerdictText \o "\n" \o Fence))
        => returned = Dict(FullVerdict)

(***************************************************************************)
(* grade_evaluation: the report on a list of evaluation results.  The      *)
(* scores are multiples of 0.5, so their float sums are exact; a mean is   *)
(* the exact quotient, in units of 10^-FracDigits.                         *)
(***************************************************************************)
\* The values of GradeLevel.
GradeLevels == {grade_thresholds[k][1] : k \in 1..Len(grade_thresholds)}

\* np.mean of an empty list.
NaN == [t |-> "nan"]

\* round(x, 2) of a quotient x.
RoundRatio2(x) == RoundHalfEven(x.num * 100, x.den * Unit) * Cent

\* _get_grade of a quotient: the thresholds are whole units, so the
\* quotient reaches a threshold exactly when its integer part does.
GradeOfRatio(x) == _get_grade(x.num \div x.den)

\* Variant: the total is overwritten by each score, not added to.
SumUpTo_overwritten(s, n) == IF n = 0 THEN 0 ELSE s[n]

\* The sum of s[k] for the k in 1..n, by halves.
SumUpTo(s, n) ==
    LET part[lo \in 1..(n + 1), hi \in 0..n] ==
            IF lo > hi THEN 0
            ELSE IF lo = hi THEN s[lo]
            ELSE part[lo, (lo + hi) \div 2] + part[(lo + hi) \div 2 + 1, hi]
    IN  part[1, n]

MeanOf(s, n) == IF n = 0 THEN NaN ELSE Ratio(SumUpTo(s, n), n)

\* Variant: the count of a category is set when the category is first
\* seen and not incremented after.
CategoryAverages_counted_once(evaluation_results, graded_results) ==
    [ c \in {evaluation_results[k].category : k \in 1..Len(evaluation_results)} |->
        Only({ [average_score |-> average, grade |-> GradeOfRatio(average), count |-> 1]
               : average \in
                   { Ratio(SumUpTo([k \in 1..Len(evaluation_results) |->
                                       IF evaluation_results[k].category = c
                                       THEN graded_results[k].score ELSE 0],
                                   Len(evaluation_results)),
                           1) } }) ]

\* category_averages: per category the mean of its scores, the grade of
\* that mean and the count.
CategoryAverages(evaluation_results, graded_results) ==
    [ c \in {evaluation_results[k].category : k \in 1..Len(evaluation_results)} |->
        Only({ Only({ [average_score |-> average, grade |-> GradeOfRatio(average),
                       count |-> count]
                      : average \in
                          { Ratio(SumUpTo([k \in 1..Len(evaluation_results) |->
                                              IF evaluation_results[k].category = c
                                              THEN graded_results[k].score ELSE 0],
                                          Len(evaluation_results)),
                                  count) } })
               : count \in {Cardinality({k \in 1..Len(evaluation_results) :
                                            evaluation_results[k].category = c})} }) ]

\* Variant: the overall grade is looked up for the rounded score.
OverallGrade_of_rounded(overall_score) == _get_grade(RoundRatio2(overall_score))

OverallGrade(overall_score) == GradeOfRatio(overall_score)

grade_evaluation(evaluation_results) ==
    Only({ Only({ [overall_score |-> RoundRatio2(overall_score),
                   overall_grade |-> OverallGrade(overall_score),
                   total_questions |-> n,
                   category_performance |->
                       CategoryAverages(evaluation_results, graded_results),
                   grade_distribution |->
                       [g \in GradeLevels |->
                           Cardinality({k \in 1..n : graded_results[k].grade = g})],
                   detailed_results |-> graded_results,
                   summary_stats |->
                       [average_accuracy_score |->
                            MeanOf([k \in 1..n |-> graded_results[k].accuracy_score], n),
                        average_precision_score |->
                            MeanOf([k \in 1..n |-> graded_results[k].precision_score], n),
                        average_quality_score |->
                            MeanOf([k \in 1..n |-> graded_results[k].quality_score], n),
                        questions_with_penalties |->
                            Cardinality({k \in 1..n : graded_results[k].penalties # <<>>}),
                        questions_with_bonuses |->
                            Cardinality({k \in 1..n : graded_results[k].bonuses # <<>>})]]
                  : overall_score \in
                      { IF n > 0
                        THEN Ratio(SumUpTo([k \in 1..n |-> graded_results[k].score], n), n)
                        ELSE Ratio(0, 1) } })
           : n \in {Len(evaluation_results)},
             graded_results \in
                 { [k \in 1..Len(evaluation_results) |->
                       calculate_question_score(evaluation_results[k])] } })

\* The results graded: a correct number, a number 20% off, an empty
\* ranking, a missing response, a hallucinated token and a wrong token.
ReportedResults ==
    { [query_id |-> "sol_price_change_30d", category |-> "price_change",
       truth |-> Num(10 * Unit), predicted |-> Num(10 * Unit), correct |-> TRUE,
       absolute_error |-> Num(0), error_type |-> Str("numeric_error"),
       is_hallucination |-> FALSE],
      [query_id |-> "eth_price_change_30d", category |-> "price_change",
       truth |-> Num(10 * Unit), predicted |-> Num(12 * Unit), correct |-> FALSE,
       absolute_error |-> Num(2 * Unit), error_type |-> Str("numeric_error"),
       is_hallucination |-> FALSE],
      [query_id |-> "rank_by_avg_close", category |-> "performance_comparison",
       truth |-> List(<<"ETH", "TAO", "SOL">>), predicted |-> List(<<>>),
       correct |-> FALSE, absolute_error |-> None,
       error_type |-> Str("list_mismatch"), is_hallucination |-> FALSE],
      [query_id |-> "eth_highest_close_date", category |-> "price_analysis",
       truth |-> Str("2025-06-11"), predicted |-> None, correct |-> FALSE,
       absolute_error |-> None, error_type |-> Str("missing_response"),
       is_hallucination |-> FALSE],
      [query_id |-> "most_volatile_token", category |-> "volatility",
       truth |-> Str("TAO"), predicted |-> Str("BTC"), correct |-> FALSE,
       absolute_error |-> None, error_type |-> Str("string_mismatch"),
       is_hallucination |-> TRUE],
      [query_id |-> "least_volatile_token", category |-> "volatility",
       truth |-> Str("TAO"), predicted |-> Str("SOL"), correct |-> FALSE,
       absolute_error |-> None, error_type |-> Str("string_mismatch"),
       is_hallucination |-> FALSE] }

\* A long run: `first` times the result a, then the result b up to `total`.
LongRun(a, first, b, total) == [k \in 1..total |-> IF k <= first THEN a ELSE b]

\* Runs of more than a hundred results whose mean is within 0.005 of a
\* threshold: 8 at 100 and 103 at 51.5 (mean 54.9955), and the same run
\* with one more result at 100 (mean 55.4286).
LongRuns ==
    { LongRun(a, first, b, 111) :
        a \in {r \in ReportedResults : r.correct},
        b \in {r \in ReportedResults : r.error_type = Str("list_mismatch")},
        first \in {8, 9} }

ReportInit ==
    /\ queries = <<>>
    /\ agent_responses = <<>>
    /\ results \in UNION { [1..n -> ReportedResults] : n \in 0..MaxResults } \cup LongRuns
    /\ summary = None
    /\ evaluation_result = None
    /\ grade_record = None
    /\ pc = "grade_evaluation"
    /\ call = None
    /\ returned = None

GradeEvaluation ==
    /\ pc = "grade_evaluation"
    /\ summary' = grade_evaluation(results)
    /\ pc' = "returned"
    /\ UNCHANGED <<queries, agent_responses, results, evaluation_result, grade_record,
                   call, returned>>

ReportNext == GradeEvaluation

ReportSpec == ReportInit /\ [][ReportNext]_vars

\* The per-question scores of the results graded.
QuestionScores == [k \in 1..Len(results) |-> calculate_question_score(results[k]).score]

\* C22: grade_evaluation reports as overall_score the arithmetic mean of the
\* per-question scores, to the two decimals of the report (0.0 and F for an
\* empty list), as overall_grade the grade the threshold table gives the
\* reported overall_score, and for each category the grade the table gives
\* its reported average_score.
C22_ReportedGrades ==
    pc = "returned" =>
        /\ summary.overall_score
               = IF results = <<>> THEN 0
                 ELSE RoundRatio2(Ratio(SumUpTo(QuestionScores, Len(results)),
                                        Len(results)))
        /\ results = <<>> => summary.overall_grade = "F"
        /\ summary.overall_grade = _get_grade(summary.overall_score)
        /\ \A c \in DOMAIN summary.category_performance :
               summary.category_performance[c].grade
                   = GradeOfRatio(summary.category_performance[c].average_score)

(***************************************************************************)
(* The complete evaluation (src/run_complete_evaluation.py): the run of    *)
(* the pattern-based evaluator, then the report on the results of its      *)
(* summary, kept in grade_record.                                          *)
(***************************************************************************)
GradeRun ==
    /\ pc = "done"
    /\ grade_record' = grade_evaluation(summary.results)
    /\ pc' = "graded"
    /\ UNCHANGED <<queries, agent_responses, results, summary, evaluation_result,
                   call, returned>>

PipelineNext == EvaluateResponse \/ RecordMissing \/ ReturnSummary \/ GradeRun

PipelineSpec == Init /\ [][PipelineNext]_vars

\* The list rs in the order p of its positions.
Reordered(rs, p) == [k \in 1..Len(rs) |-> rs[p[k]]]

\* The aggregates of a report that the order could touch.
ReportAggregates(report) ==
    [overall_score |-> report.overall_score,
     overall_grade |-> report.overall_grade,
     grade_distribution |-> report.grade_distribution,
     category_performance |-> report.category_performance]

RunAggregates(s) ==
    [correct_answers |-> s.correct_answers,
     hallucination_count |-> s.hallucination_count,
     accuracy_percentage |-> s.accuracy_percentage]

\* C23: the aggregates of a run do not depend on the order of the results:
\* for every permutation of the results, grade_evaluation gives the same
\* overall_score, overall_grade, grade_distribution and per-category
\* average, grade and count, and the summary of run_evaluation the same
\* correct_answers, hallucination_count and accuracy_percentage.
C23_OrderIndependent ==
    pc = "graded" =>
        \A p \in Permutations(1..Len(results)) :
            /\ ReportAggregates(grade_evaluation(Reordered(summary.results, p)))
                   = ReportAggregates(grade_record)
            /\ RunAggregates(Summarize(Reordered(results, p), DefaultAgentName))
                   = RunAggregates(summary)

\* A run of two queries of different categories, one answered correctly and
\* one answered wrongly, was graded.
C23_Witness ==
    /\ pc = "graded"
    /\ Len(results) = 2
    /\ results[1].category # results[2].category
    /\ results[1].correct # results[2].correct
    /\ grade_record.detailed_results[1].score # grade_record.detailed_results[2].score

\* The scores and the grade of a grade record.
Scores(record) ==
    [accuracy_score |-> record.accuracy_score,
     precision_score |-> record.precision_score,
     quality_score |-> record.quality_score,
     score |-> record.score,
     grade |-> record.grade]

FailedTags == {Str("evaluation_failed"), Str("extraction_failed")}

\* C24: a result tagged 'evaluation_failed' is scored like the same result
\* tagged 'extraction_failed': the same accuracy_score, precision_score,
\* quality_score, score and grade, with accuracy_score 0 when correct is
\* false; neither tag makes calculate_question_score raise.
C24_FailedTagsAlike ==
    (grade_record # None /\ evaluation_result.error_type \in FailedTags) =>
        /\ ~Raised(grade_record)
        /\ \A tag \in FailedTags :
               Scores(calculate_question_score(
                          [evaluation_result EXCEPT !.error_type = tag]))
                   = Scores(grade_record)
        /\ ~evaluation_result.correct => grade_record.accuracy_score = 0

\* The verdict of a failed judge call was graded: no accuracy, no
\* precision, quality 70.
C24_Witness ==
    /\ grade_record # None
    /\ evaluation_result.error_type = Str("evaluation_failed")
    /\ ~evaluation_result.correct
    /\ ~evaluation_result.is_hallucination
    /\ evaluation_result.predicted = None
    /\ evaluation_result.absolute_error = None
    /\ grade_record.accuracy_score = 0
    /\ grade_record.quality_score = 70 * Unit
    /\ grade_record.grade = "F"

\* The categories evaluate_agent_response has an extractor for.
ExtractedCategories ==
    {"percentage_threshold", "price_change", "volatility", "volume_analysis",
     "performance_comparison", "price_analysis"}

\* Query k of the store is of no extracted category and has a response.
OtherCategoryAnswered(k) ==
    /\ queries[k].category \notin ExtractedCategories
    /\ queries[k].id \in DOMAIN agent_responses

\* The result of a query of no extracted category: nothing predicted, a
\* type mismatch, flagged.
FlaggedTypeMismatch(r) ==
    /\ r.predicted = None
    /\ ~r.correct
    /\ r.error_type = Str("type_mismatch")
    /\ r.is_hallucination

\* C25: an answered query whose category is none of percentage_threshold,
\* price_change, volatility, volume_analysis, performance_comparison,
\* price_analysis always yields predicted = null, correct = false,
\* error_type = 'type_mismatch', is_hallucination = true, whatever the
\* response, and is graded score 0 / F.
C25_OtherCategoryFlagged ==
    \A k \in 1..Len(queries) :
        OtherCategoryAnswered(k) =>
            /\ ~(pc = "raised" /\ Len(results) = k - 1)
            /\ k <= Len(results) => FlaggedTypeMismatch(results[k])
            /\ pc = "graded" =>
                   /\ grade_record.detailed_results[k].score = 0
                   /\ grade_record.detailed_results[k].grade = "F"

\* The part of C25 that holds: every result that is produced for such a
\* query is the flagged type mismatch and is graded 0 / F.
OtherCategoryResultFlagged ==
    \A k \in 1..Len(results) :
        OtherCategoryAnswered(k) =>
            /\ FlaggedTypeMismatch(results[k])
            /\ pc = "graded" =>
                   /\ grade_record.detailed_results[k].score = 0
                   /\ grade_record.detailed_results[k].grade = "F"

\* Such a result was produced from a response with a number in it, and graded.
OtherCategoryGraded ==
    /\ pc = "graded"
    /\ Len(results) = 1
    /\ OtherCategoryAnswered(1)
    /\ results[1].agent_response = Str("12")
    /\ grade_record.detailed_results[1].grade = "F"

\* Result k of the run is correct and not flagged.
CorrectUnflagged(k) == results[k].correct /\ ~results[k].is_hallucination

\* A value _calculate_precision_score gives 100 for: a number, a token of
\* the three, a 10-character string or a non-empty list.
Specific(predicted) ==
    \/ IsNum(predicted)
    \/ IsStr(predicted) /\ predicted.v \in {"SOL", "ETH", "TAO"}
    \/ IsStr(predicted) /\ Len(predicted.v) = 10
    \/ IsList(predicted) /\ predicted.v # <<>>

\* C26: every result of the pattern-based evaluator with correct = true
\* and is_hallucination = false has a number, a valid token, a
\* 10-character date or a non-empty list as predicted value, and is graded
\* accuracy_score = precision_score = quality_score = 100, score 100.0,
\* grade A+.
C26_CorrectUnflaggedFullMarks ==
    \A k \in 1..Len(results) :
        CorrectUnflagged(k) =>
            /\ Specific(results[k].predicted)
            /\ pc = "graded" =>
                   /\ grade_record.detailed_results[k].accuracy_score = 100 * Unit
                   /\ grade_record.detailed_results[k].precision_score = 100 * Unit
                   /\ grade_record.detailed_results[k].quality_score = 100 * Unit
                   /\ grade_record.detailed_results[k].score = 100 * Unit
                   /\ grade_record.detailed_results[k].grade = "A+"

\* A correct date, not flagged, was graded A+.
C26_Witness ==
    /\ pc = "graded"
    /\ \E k \in 1..Len(results) :
           /\ CorrectUnflagged(k)
           /\ results[k].predicted = Str("2025-06-11")
           /\ grade_record.detailed_results[k].grade = "A+"

\* The result graded went past both early returns of
\* calculate_question_score.
SubScoresComputed ==
    /\ grade_record # None
    /\ evaluation_result.error_type # Str("missing_response")
    /\ ~evaluation_result.is_hallucination

\* C27: for a result neither missing nor flagged, quality_score is 70, 80
\* or 100, fixed by whether predicted is null and whether correct is true:
\* the hallucination penalty is not applied and the bonus for an absolute
\* error of at most 0.1 changes nothing, so quality_score is the same for
\* every absolute_error.
C27_QualityOfThree ==
    SubScoresComputed =>
        /\ grade_record.quality_score =
               IF evaluation_result.predicted # None THEN 100 * Unit
               ELSE IF evaluation_result.correct THEN 80 * Unit
               ELSE 70 * Unit
        /\ \A e \in GradedErrors :
               _calculate_quality_score([evaluation_result EXCEPT !.absolute_error = e])
                   = grade_record.quality_score

\* A wrong number within 0.1 of the truth was graded: the bonus applies
\* and the quality is 100.
C27_Witness ==
    /\ SubScoresComputed
    /\ IsNum(evaluation_result.predicted)
    /\ ~evaluation_result.correct
    /\ evaluation_result.absolute_error = Num(Hundredths(10))
    /\ grade_record.quality_score = 100 * Unit

\* The lowest score of a result that is neither missing nor flagged:
\* .6 * 10 + .25 * 100 + .15 * 100.
LowestGradedScore == 46 * Unit

\* C28: in the pattern-based pipeline a per-question score is exactly 0,
\* with grade F, or at least 46; so no question is graded D-, and F is
\* given only to a missing response or a flagged result.
C28_ZeroOrFortySix ==
    pc = "graded" =>
        \A k \in 1..Len(results) :
            LET record == grade_record.detailed_results[k]
            IN  /\ \/ record.score = 0 /\ record.grade = "F"
                   \/ record.score >= LowestGradedScore
                /\ record.grade # "D-"
                /\ record.grade = "F" =>
                       \/ results[k].error_type = Str("missing_response")
                       \/ results[k].is_hallucination

\* A number more than 50% off the truth was graded 46.0, D.
C28_Witness ==
    /\ pc = "graded"
    /\ \E k \in 1..Len(results) :
           /\ results[k].error_type = Str("numeric_error")
           /\ ~results[k].is_hallucination
           /\ grade_record.detailed_results[k].accuracy_score = 10 * Unit
           /\ grade_record.detailed_results[k].score = LowestGradedScore
           /\ grade_record.detailed_results[k].grade = "D"

\* A non-empty list of at most three of SOL, ETH, TAO, none twice.
RankingOfTokens(value) ==
    /\ IsList(value)
    /\ Len(value.v) \in 1..3
    /\ \A k \in 1..Len(value.v) : Member(value.v[k], ValidTokens)
    /\ \A j, k \in 1..Len(value.v) : value.v[j] = value.v[k] => j = k

\* C29: a value _normalize_ranking returns that is not None is a non-empty
\* list of at most three elements, each of SOL, ETH, TAO and none twice;
\* so the hallucination test of evaluate_agent_response never flags it,
\* whatever the category.
C29_RankingOfValidTokens ==
    \A k \in 1..Len(returned) :
        (call[k].method = "_normalize_ranking" /\ returned[k] # None) =>
            /\ RankingOfTokens(returned[k])
            /\ \A category \in ExtractedCategories :
                   ~is_hallucination(returned[k], category)

\* A text that names SOL three times and ETH once gave the list SOL, ETH.
C29_Witness ==
    /\ Len(returned) = 1
    /\ call[1] = ExtractorCall("_normalize_ranking", Str("SOL, SOL, ETH, SOL"))
    /\ returned[1] = List(<<"SOL", "ETH">>)

\* The consequence in the run: no list-typed predicted value is flagged.
ListNeverFlagged ==
    \A k \in 1..Len(results) :
        IsList(results[k].predicted) =>
            RankingOfTokens(results[k].predicted) /\ ~results[k].is_hallucination

\* sum(f[x] for x in keys), for a dict f of counts.
RECURSIVE SumOver(_, _)
SumOver(f, keys) ==
    IF keys = {} THEN 0
    ELSE LET x == CHOOSE x \in keys : TRUE
         IN  f[x] + SumOver(f, keys \ {x})

\* The counts of a report add up to the results it was made from, and its
\* grade records are those of the results, one each, in their order.
CountsConserved(report, evaluation_results) ==
    /\ report.total_questions = Len(evaluation_results)
    /\ DOMAIN report.grade_distribution = GradeLevels
    /\ Cardinality(GradeLevels) = 13
    /\ SumOver(report.grade_distribution, GradeLevels) = report.total_questions
    /\ SumOver([c \in DOMAIN report.category_performance |->
                   report.category_performance[c].count],
               DOMAIN report.category_performance) = report.total_questions
    /\ Len(report.detailed_results) = Len(evaluation_results)
    /\ \A k \in 1..Len(evaluation_results) :
           /\ report.detailed_results[k].query_id = evaluation_results[k].query_id
           /\ report.detailed_results[k].category = evaluation_results[k].category

\* C30: grade_evaluation conserves counts: grade_distribution has an entry
\* for each of the 13 grades and its counts sum to total_questions, the
\* counts per category sum to total_questions, detailed_results has one
\* grade record per result, in the order of the results and with their
\* query_id and category, and the results are not modified.
C30_CountsConserved ==
    /\ [](pc = "returned" => CountsConserved(summary, results))
    /\ [][results' = results]_vars

\* Three results were graded, two of one category, one of them an F.
C30_Witness ==
    /\ pc = "returned"
    /\ Len(results) = 3
    /\ Cardinality(DOMAIN summary.category_performance) = 2
    /\ "price_change" \in DOMAIN summary.category_performance
    /\ summary.category_performance["price_change"].count = 2
    /\ summary.grade_distribution["F"] = 1
    /\ summary.grade_distribution["A+"] = 1
====
